---- MODULE Spec2Model ----
(***************************************************************************)
(* A model of the runtime core of the rune Lisp interpreter: tagged        *)
(* values, the heap blocks and the collector, the symbol table, the root   *)
(* set, the environment and the tree-walking evaluator.                    *)
(***************************************************************************)
EXTENDS Integers, Sequences, FiniteSets, TLC

VARIABLES
    heap,      \* the cells of the global block and of the arena's block
    symMap,    \* SymbolMapCore.map: name -> symbol cell
    envVars,   \* Environment.vars: symbol cell -> value
    roots,     \* RootSet.roots: the stack of rooted data
    ctl,       \* the evaluator's position: what it is about to do
    stack,     \* the evaluator's active functions, innermost last
    log,       \* record of what the running evaluation has done
    shadow,    \* the same evaluation run with a collector that never collects
    last,      \* what the last operation was given and what it returned
    steps,     \* operations performed so far
    lock,      \* holder of the symbol-table mutex (0: free)
    tpc,       \* per thread: position inside the global intern
    tname,     \* per thread: the name it interns
    tres,      \* per thread: the symbol cells its calls returned
    locals,    \* Root structs alive on the host stack, oldest first
    frames,    \* per active host function: Len(locals) at its entry
    reader     \* the tokens still to read and the lists being read

vars == <<heap, symMap, envVars, roots, ctl, stack, log, shadow, last, steps,
          lock, tpc, tname, tres, locals, frames, reader>>

(***************************************************************************)
(* Bounds of the model.                                                    *)
(***************************************************************************)
MaxEvals == 2
MaxSymOps == 4
MaxInterns == 2
MaxDepth == 4
MaxRoots == 4
NumThreads == 2

(***************************************************************************)
(* Tagged values (Object / GcObj).  A value is <<tag, payload>>; a cons or *)
(* a symbol carries the index of its cell.                                 *)
(***************************************************************************)
Nil == <<"nil", 0>>
True == <<"t", 0>>
IntV(n) == <<"int", n>>
StrV(s) == <<"str", s>>
SymV(i) == <<"sym", i>>
ConsV(i) == <<"cons", i>>
SubrV(n) == <<"subr", n>>
Freed == <<"freed", 0>>

IsCons(v) == v[1] = "cons"
IsSym(v) == v[1] = "sym"
IsList(v) == v[1] = "cons" \/ v[1] = "nil"

(***************************************************************************)
(* Heap cells.  A cons cell holds car and cdr and its mutability flag; a   *)
(* symbol cell holds its name and its function slot (Nil: no function).    *)
(***************************************************************************)
ConsCell(a, d, blk, mut) ==
    [t |-> "cons", a |-> a, d |-> d, mut |-> mut, blk |-> blk, live |-> TRUE]
SymCell(name, func, blk) ==
    [t |-> "sym", a |-> StrV(name), d |-> func, mut |-> FALSE, blk |-> blk, live |-> TRUE]
FreedCell(blk) ==
    [t |-> "freed", a |-> Freed, d |-> Freed, mut |-> FALSE, blk |-> blk, live |-> FALSE]

\* The symbols of the generated initialization table, with the native
\* functions some of them name.
BuiltinNames ==
    <<"quote", "let", "let*", "if", "and", "or", "cond", "while", "progn",
      "prog1", "prog2", "setq", "defvar", "defconst", "function", "interactive",
      "catch", "condition-case", "lambda", "closure", "macro", "&optional",
      "&rest", "error", "debug",
      "cons", "car", "cdr", "setcar", "+", "funcall", "apply", "defalias",
      "eval", "macroexpand">>
SubrNames ==
    {"cons", "car", "cdr", "setcar", "+", "funcall", "apply", "defalias",
     "eval", "macroexpand"}

SymId(name) == CHOOSE i \in 1..Len(BuiltinNames) : BuiltinNames[i] = name
SymC(name) == SymV(SymId(name))

InitHeap ==
    [i \in 1..Len(BuiltinNames) |->
        SymCell(BuiltinNames[i],
                IF BuiltinNames[i] \in SubrNames THEN SubrV(BuiltinNames[i]) ELSE Nil,
                "global")]
InitSymMap == [n \in {BuiltinNames[i] : i \in 1..Len(BuiltinNames)} |-> SymId(n)]

Car(h, v) == IF IsCons(v) THEN h[v[2]].a ELSE IF v = Freed THEN Freed ELSE Nil
Cdr(h, v) == IF IsCons(v) THEN h[v[2]].d ELSE IF v = Freed THEN Freed ELSE Nil
SymName(h, v) == h[v[2]].a[2]
SymFunc(h, v) == h[v[2]].d

(***************************************************************************)
(* The symbol table.                                                       *)
(***************************************************************************)
\* SymbolMapCore::get
MapGet(map, name) == IF name \in DOMAIN map THEN SymV(map[name]) ELSE Nil

\* pre_init putting the symbol in the place of the one the map holds.
PreInitReplace(h, map, sym) ==
    [ok |-> TRUE,
     map |-> [n \in DOMAIN map \cup {SymName(h, sym)} |->
                IF n = SymName(h, sym) THEN sym[2] ELSE map[n]]]

\* SymbolMapCore::pre_init: the assert! fails on a name the map holds; a
\* new name is inserted with the symbol given.
PreInit(h, map, sym) ==
    IF SymName(h, sym) \in DOMAIN map THEN [ok |-> FALSE, map |-> map]
    ELSE [ok |-> TRUE,
          map |-> [n \in DOMAIN map \cup {SymName(h, sym)} |->
                     IF n = SymName(h, sym) THEN sym[2] ELSE map[n]]]

\* SymbolMapCore::intern, the None arm: a new symbol cell is allocated in
\* `blk` and inserted under the name.
InternNew(h, map, name, blk) ==
    LET id == Len(h) + 1
    IN  [heap |-> Append(h, SymCell(name, Nil, blk)),
         map |-> [n \in DOMAIN map \cup {name} |-> IF n = name THEN id ELSE map[n]],
         sym |-> SymV(id)]

\* SymbolMapCore::intern with a lookup that never hits.
InternCoreNoLookup(h, map, name, blk) == InternNew(h, map, name, blk)

\* SymbolMapCore::intern: the existing entry, or a new one.
InternCore(h, map, name, blk) ==
    IF MapGet(map, name) # Nil
    THEN [heap |-> h, map |-> map, sym |-> MapGet(map, name)]
    ELSE InternNew(h, map, name, blk)

\* SymbolMap::intern with the arena's block in place of the map's own block.
SymbolMapInternLocal(h, map, name) == InternCore(h, map, name, "local")

\* SymbolMap::intern: interns into the map's own (global) block.
SymbolMapIntern(h, map, name) == InternCore(h, map, name, "global")

\* CloneIn for objects: conses are copied, cell by cell, into `blk`; a cons of
\* the global block (Block<true>) is read-only.
RECURSIVE CloneIn(_, _, _)
CloneIn(h, v, blk) ==
    IF IsCons(v)
    THEN LET a == CloneIn(h, h[v[2]].a, blk)
             d == CloneIn(a.heap, h[v[2]].d, blk)
         IN  [heap |-> Append(d.heap, ConsCell(a.v, d.v, blk, blk # "global")),
              v |-> ConsV(Len(d.heap) + 1)]
    ELSE [heap |-> h, v |-> v]

\* SymbolMap::set_func that stores the function it was given.
SetFuncNoClone(h, sym, func) == [h EXCEPT ![sym[2]].d = func]

\* SymbolMap::set_func: clone the function into the map's block, then store
\* the clone in the symbol's function slot.
SetFunc(h, sym, func) ==
    LET c == CloneIn(h, func, "global")
    IN  [c.heap EXCEPT ![sym[2]].d = c.v]

\* Cons::set_car / Cons::set_cdr: refused on a read-only cons.
SetCar(h, c, v) ==
    IF h[c[2]].mut THEN [ok |-> TRUE, heap |-> [h EXCEPT ![c[2]].a = v]]
    ELSE [ok |-> FALSE, heap |-> h]
SetCdr(h, c, v) ==
    IF h[c[2]].mut THEN [ok |-> TRUE, heap |-> [h EXCEPT ![c[2]].d = v]]
    ELSE [ok |-> FALSE, heap |-> h]

\* Symbol::follow_indirect: follow function slots that hold symbols.
RECURSIVE FollowIndirect(_, _, _)
FollowIndirect(h, sym, hops) ==
    LET f == SymFunc(h, sym)
    IN  IF f = Nil \/ hops = 0 THEN Nil
        ELSE IF IsSym(f) THEN FollowIndirect(h, f, hops - 1)
        ELSE f

(***************************************************************************)
(* The root set and the collector.                                         *)
(***************************************************************************)
\* Root::init: push the address of the rooted datum.
RootInit(rs, ptr, data) == Append(rs, [ptr |-> ptr, data |-> data])

\* Drop for an initialized Root that leaves the root set alone.
RootDropNoPop(rs) == rs

\* Drop for an initialized Root: pop the newest entry.
RootDrop(rs) == SubSeq(rs, 1, Len(rs) - 1)

ConsIds(seq) == {seq[i][2] : i \in {j \in DOMAIN seq : seq[j][1] = "cons"}}

\* The cons cells the root set reaches directly. Trace for Symbol marks
\* nothing.
RootIds(rs, ev) ==
    UNION {ConsIds(rs[i].data) : i \in DOMAIN rs}
    \cup {ev[s][2] : s \in {x \in DOMAIN ev : ev[x][1] = "cons"}}

\* Mark phase: the cells reachable from `from`.  MarkStep adds the cells the
\* marked ones point to; MarkN(h, s, n) repeats it up to 2^n times, stopping
\* at the fixed point.
MarkStep(h, s) == s \cup UNION {ConsIds(<<h[i].a, h[i].d>>) : i \in s}
RECURSIVE MarkN(_, _, _)
MarkN(h, s, n) ==
    IF n = 0 THEN MarkStep(h, s)
    ELSE LET a == MarkN(h, s, n - 1)
         IN  IF MarkStep(h, a) = a THEN a ELSE MarkN(h, a, n - 1)
MarkLevels == 9
Mark(h, from) == MarkN(h, from, MarkLevels)

\* Sweep phase: unmarked cells of the arena's block are reclaimed. The global
\* block is not swept.
Sweep(h, marked) ==
    [i \in DOMAIN h |->
        IF h[i].blk = "local" /\ h[i].live /\ i \notin marked
        THEN FreedCell("local") ELSE h[i]]

GarbageCollect(h, rs, ev) == Sweep(h, Mark(h, RootIds(rs, ev)))

(***************************************************************************)
(* The evaluator as a machine.  Its state m holds heap, symMap, ev and     *)
(* roots (the program's state), the control c (what is done next) and the  *)
(* stack k of the active functions' frames; gcOn says whether              *)
(* garbage_collect collects, and gcs, lets, handlers and closures record   *)
(* what happened (they are never read by the evaluation).                  *)
(***************************************************************************)
OkR(v) == [ok |-> TRUE, v |-> v, e |-> "", bt |-> <<>>, panic |-> FALSE]
ErrR(e) == [ok |-> FALSE, v |-> Nil, e |-> e, bt |-> <<>>, panic |-> FALSE]
PanicR(e) == [ok |-> FALSE, v |-> Nil, e |-> e, bt |-> <<>>, panic |-> TRUE]

ArgError(name) == ErrR("Expected different number of arguments: " \o name)
TypeError(expected) == ErrR("Expected type " \o expected)

\* The three kinds of control: eval_form is entered with a form, a function is
\* called with the rooted argument vector at index ak, a function returns.
E(vk, form) ==
    [t |-> "eval", vk |-> vk, form |-> form, ak |-> 0, name |-> "", r |-> OkR(Nil)]
C(func, ak, name) ==
    [t |-> "call", vk |-> 0, form |-> func, ak |-> ak, name |-> name, r |-> OkR(Nil)]
R(r) == [t |-> "ret", vk |-> 0, form |-> Nil, ak |-> 0, name |-> "", r |-> r]
Idle == [t |-> "idle", vk |-> 0, form |-> Nil, ak |-> 0, name |-> "", r |-> OkR(Nil)]

NoEnv == [s \in {} |-> Nil]

\* A frame: the function f that waits for a result, the length of the root
\* set when it was entered, the index vk of its lexical stack, and its locals:
\* indices of Roots (k, k2), counters (n, n2), an unrooted symbol or the
\* pending error (x) and a name (s).  lex0 and ev0 are records for the log.
Fr(f, base, vk) ==
    [f |-> f, base |-> base, vk |-> vk, k |-> 0, k2 |-> 0, n |-> 0, n2 |-> 0,
     x |-> Nil, s |-> "", lex0 |-> <<>>, ev0 |-> NoEnv]

Go(m, c) == [m EXCEPT !.c = c]
Push(m, fr) == [m EXCEPT !.k = Append(@, fr)]

\* root!: Root::new followed by Root::init.
PushRoot(m, data) == [m EXCEPT !.roots = RootInit(@, Len(@) + 1, data)]
SetRoot(m, k, data) == [m EXCEPT !.roots[k].data = data]
RootData(m, k) == m.roots[k].data

\* Scope exit: the Roots declared since the scope was entered are dropped,
\* newest first.
RECURSIVE DropN(_, _)
DropN(rs, n) == IF n <= 0 THEN rs ELSE DropN(RootDrop(rs), n - 1)
Leave(m, base) == [m EXCEPT !.roots = DropN(@, Len(@) - base)]

\* A function entered with `base` roots returns r.
Return(m, base, r) == Go(Leave(m, base), R(r))

\* Arena::garbage_collect, called by a function that goes on to use the
\* values `using`.  The record says whether all of them were reachable from
\* the root set, and tr how many steps were on record when it collected.
Collect(m, using) ==
    LET marked == Mark(m.heap, RootIds(m.roots, m.ev))
        ev == [safe |-> ConsIds(using) \subseteq marked, at |-> Len(m.heap),
               tr |-> Len(m.trace)]
    IN  IF m.gcOn
        THEN [m EXCEPT !.heap = Sweep(m.heap, marked), !.gcs = Append(@, ev)]
        ELSE [m EXCEPT !.gcs = Append(@, ev)]

\* cons!: a fresh mutable cons in the arena's block.
AllocCons(m, a, d) ==
    [m |-> [m EXCEPT !.heap = Append(@, ConsCell(a, d, "local", TRUE))],
     v |-> ConsV(Len(m.heap) + 1)]

\* `len() as u16`: the counts bind_args and eval_function compare.
U16 == 65536
NumArgs(seq) == Len(seq) % U16

\* The list of the elements of `seq` from the last to the first.
RECURSIVE SliceNewestFirst(_, _, _)
SliceNewestFirst(m, seq, tl) ==
    IF Len(seq) = 0 THEN [m |-> m, v |-> tl]
    ELSE LET d == SliceNewestFirst(m, SubSeq(seq, 1, Len(seq) - 1), tl)
         IN  AllocCons(d.m, seq[Len(seq)], d.v)

\* fns::slice_into_list: the list of the elements of `seq`, ending in `tl`.
RECURSIVE SliceIntoList(_, _, _)
SliceIntoList(m, seq, tl) ==
    IF Len(seq) = 0 THEN [m |-> m, v |-> tl]
    ELSE LET d == SliceIntoList(m, Tail(seq), tl)
         IN  AllocCons(d.m, Head(seq), d.v)

\* Object::as_list collected: the elements of a proper list.
RECURSIVE ListElems(_, _)
ListElems(h, v) ==
    IF IsCons(v)
    THEN LET d == ListElems(h, h[v[2]].d)
         IN  [ok |-> d.ok, elems |-> <<h[v[2]].a>> \o d.elems]
    ELSE [ok |-> v[1] = "nil", elems |-> <<>>]

\* element_iter!: two Roots, one for the current element and one for the
\* cons the iterator stands on.  `k` is the index of the first.
IterNew(m, obj) == PushRoot(PushRoot(m, <<>>), IF IsCons(obj) THEN <<obj>> ELSE <<>>)
IterEmpty(m, k) == Len(RootData(m, k + 1)) = 0
IterNext(m, k) ==
    LET c == RootData(m, k + 1)[1]
        d == Cdr(m.heap, c)
    IN  SetRoot(SetRoot(m, k, <<Car(m.heap, c)>>), k + 1,
                IF IsCons(d) THEN <<d>> ELSE <<>>)
Elem(m, k) == RootData(m, k)[1]

\* The interpreter's lexical binding stack (Interpreter.vars), a rooted
\* vector of (symbol . value) cells.
Lex(m, vk) == RootData(m, vk)

QUOTE == SymC("quote")
LET_ == SymC("let")
LET_STAR == SymC("let*")
IF_ == SymC("if")
AND == SymC("and")
OR == SymC("or")
COND == SymC("cond")
WHILE == SymC("while")
PROGN == SymC("progn")
PROG1 == SymC("prog1")
PROG2 == SymC("prog2")
SETQ == SymC("setq")
DEFVAR == SymC("defvar")
DEFCONST == SymC("defconst")
FUNCTION == SymC("function")
INTERACTIVE == SymC("interactive")
CATCH == SymC("catch")
CONDITION_CASE == SymC("condition-case")
LAMBDA_ == SymC("lambda")
CLOSURE == SymC("closure")
MACRO == SymC("macro")
AND_OPTIONAL == SymC("&optional")
AND_REST == SymC("&rest")
ERROR == SymC("error")
DEBUG == SymC("debug")

\* Names that begin with a colon.
KeywordNames == {":key"}

\* The newest cell of the lexical stack whose car is `sym` (0: none).
FindCell(h, lex, sym) ==
    LET hits == {i \in DOMAIN lex : Car(h, lex[i]) = sym}
    IN  IF hits = {} THEN 0 ELSE CHOOSE i \in hits : \A j \in hits : j <= i

\* var_ref looking in env.vars before the lexical stack.
VarRefDynamicFirst(m, vk, sym) ==
    IF SymName(m.heap, sym) \in KeywordNames THEN OkR(sym)
    ELSE LET i == FindCell(m.heap, Lex(m, vk), sym)
         IN  IF sym[2] \in DOMAIN m.ev THEN OkR(m.ev[sym[2]])
             ELSE IF i # 0 THEN OkR(Cdr(m.heap, Lex(m, vk)[i]))
             ELSE ErrR("Void variable: " \o SymName(m.heap, sym))

\* Interpreter::var_ref
VarRef(m, vk, sym) ==
    IF SymName(m.heap, sym) \in KeywordNames THEN OkR(sym)
    ELSE LET i == FindCell(m.heap, Lex(m, vk), sym)
         IN  IF i # 0 THEN OkR(Cdr(m.heap, Lex(m, vk)[i]))
             ELSE IF sym[2] \in DOMAIN m.ev THEN OkR(m.ev[sym[2]])
             ELSE ErrR("Void variable: " \o SymName(m.heap, sym))

\* Environment::set_var
EnvSetVar(ev, s, v) == [x \in DOMAIN ev \cup {s} |-> IF x = s THEN v ELSE ev[x]]

\* var_set that looks at env.vars only.
VarSetDynamic(m, vk, name, val) ==
    [m |-> [m EXCEPT !.ev = EnvSetVar(@, name[2], val)], r |-> OkR(Nil)]

\* Interpreter::var_set
VarSet(m, vk, name, val) ==
    LET i == FindCell(m.heap, Lex(m, vk), name)
    IN  IF i # 0
        THEN LET w == SetCdr(m.heap, Lex(m, vk)[i], val)
             IN  IF w.ok THEN [m |-> [m EXCEPT !.heap = w.heap], r |-> OkR(Nil)]
                 ELSE [m |-> m, r |-> PanicR("variables should never be immutable")]
        ELSE [m |-> [m EXCEPT !.ev = EnvSetVar(@, name[2], val)], r |-> OkR(Nil)]

\* Equality of two tagged values (eq).
Eq(a, b) == a[1] = b[1] /\ a[2] = b[2]
IsNil(v) == v[1] = "nil"


(***************************************************************************)
(* The interpreter.  An operator named after a function of the source is   *)
(* the function from its entry to the first nested eval_form (or to its    *)
(* return); it takes the machine, the length `base` the root set had when  *)
(* eval_sexp was entered and the index vk of the lexical stack, and        *)
(* returns the machine with its next control.  The operators that take a   *)
(* frame and a value are the function resumed with the result of the       *)
(* nested eval_form.                                                       *)
(***************************************************************************)
\* Interpreter::quote
Quote(value, h) ==
    LET l == ListElems(h, value)
    IN  IF ~l.ok THEN TypeError("list")
        ELSE IF Len(l.elems) = 1 THEN OkR(l.elems[1])
        ELSE ArgError("quote")

\* Interpreter::implicit_progn: the loop, and the function resumed.
PrognLoop(m, fr) ==
    IF IterEmpty(m, fr.k) THEN Return(m, fr.base, OkR(RootData(m, fr.n)[1]))
    ELSE LET m1 == IterNext(m, fr.k)
         IN  Go(Push(m1, fr), E(fr.vk, Elem(m1, fr.k)))
ImplicitProgn(m, base, vk, k) ==
    PrognLoop(PushRoot(m, <<Nil>>),
              [Fr("implicit_progn", base, vk) EXCEPT !.k = k, !.n = Len(m.roots) + 1])
PrognNext(m, fr, v) == PrognLoop(SetRoot(m, fr.n, <<v>>), fr)

\* Interpreter::catch
Catch(m, base, vk, obj) ==
    LET m1 == IterNew(m, obj)
        k == Len(m.roots) + 1
    IN  IF ~IsList(obj) THEN Return(m, base, TypeError("list"))
        ELSE IF IterEmpty(m1, k) THEN Return(m1, base, ArgError("catch"))
        ELSE ImplicitProgn(IterNext(m1, k), base, vk, k)

\* Interpreter::defvar
DefvarSet(m, fr, v) ==
    LET w == VarSet(m, fr.vk, fr.x, v)
    IN  Return(w.m, fr.base, IF w.r.ok THEN OkR(v) ELSE w.r)
Defvar(m, base, vk, obj) ==
    LET m1 == IterNew(m, obj)
        k == Len(m.roots) + 1
        m2 == IterNext(m1, k)
        name == Elem(m2, k)
        fr == [Fr("defvar", base, vk) EXCEPT !.x = name]
        m3 == IterNext(m2, k)
    IN  IF ~IsList(obj) THEN Return(m, base, TypeError("list"))
        ELSE IF IterEmpty(m1, k) THEN Return(m1, base, ArgError("defvar"))
        ELSE IF ~IsSym(name) THEN Return(m2, base, TypeError("symbol"))
        ELSE IF IterEmpty(m2, k) THEN DefvarSet(m2, fr, Nil)
        ELSE Go(Push(m3, fr), E(vk, Elem(m3, k)))

\* Interpreter::eval_progx
ProgxLoop(m, fr) ==
    IF IterEmpty(m, fr.k)
    THEN IF Len(RootData(m, fr.k2)) > 0
         THEN Return(m, fr.base, OkR(RootData(m, fr.k2)[1]))
         ELSE Return(m, fr.base,
                     ArgError(IF fr.n2 = 1 THEN "prog1"
                              ELSE IF fr.n2 = 2 THEN "prog2" ELSE "progn"))
    ELSE LET m1 == IterNext(m, fr.k)
         IN  Go(Push(m1, fr), E(fr.vk, Elem(m1, fr.k)))
EvalProgx(m, base, vk, obj, prog_num) ==
    LET rk == Len(m.roots) + 1
        m1 == IterNew(PushRoot(m, <<>>), obj)
    IN  IF ~IsList(obj) THEN Return(m, base, TypeError("list"))
        ELSE ProgxLoop(m1, [Fr("eval_progx", base, vk)
                              EXCEPT !.k = rk + 1, !.k2 = rk, !.n2 = prog_num])
ProgxNext(m, fr, v) ==
    ProgxLoop(IF fr.n + 1 = fr.n2 THEN SetRoot(m, fr.k2, <<v>>) ELSE m,
              [fr EXCEPT !.n = @ + 1])

\* Interpreter::eval_progn
EvalProgn(m, base, vk, obj) ==
    IF ~IsList(obj) THEN Return(m, base, TypeError("list"))
    ELSE ImplicitProgn(IterNew(m, obj), base, vk, Len(m.roots) + 1)

\* Interpreter::eval_while: entry, the test of the condition's value, and the
\* end of one run of the body.  fk is the index of the Root `obj`.
EvalWhile(m, base, vk, fk) ==
    LET obj == RootData(m, fk)[1]
        condition == Car(m.heap, obj)
        m1 == PushRoot(m, <<condition>>)
    IN  IF ~IsList(obj) THEN Return(m, base, TypeError("list"))
        ELSE IF IsNil(obj) THEN Return(m, base, ArgError("while"))
        ELSE Go(Push(m1, [Fr("while_cond", base, vk)
                            EXCEPT !.k = Len(m.roots) + 1, !.k2 = fk]),
                E(vk, condition))
WhileTest(m, fr, v) ==
    LET b == Len(m.roots)
        m1 == IterNew(m, RootData(m, fr.k2)[1])
    IN  IF IsNil(v) THEN Return(m, fr.base, OkR(Nil))
        ELSE ImplicitProgn(Push(m1, [fr EXCEPT !.f = "while_body", !.n = b]),
                           b + 2, fr.vk, b + 1)
WhileNext(m, fr, v) ==
    LET m1 == Leave(m, fr.n)
    IN  Go(Push(m1, [fr EXCEPT !.f = "while_cond"]), E(fr.vk, RootData(m1, fr.k)[1]))

\* Interpreter::eval_cond
RECURSIVE CondLoop(_, _)
CondLoop(m, fr) ==
    IF IterEmpty(m, fr.k) THEN Return(m, fr.base, OkR(Nil))
    ELSE LET m1 == IterNext(m, fr.k)
             form == Elem(m1, fr.k)
             b == Len(m1.roots)
             m2 == IterNew(m1, form)
             m3 == IterNext(m2, b + 1)
         IN  IF ~IsList(form) THEN Return(m1, fr.base, TypeError("list"))
             ELSE IF IterEmpty(m2, b + 1) THEN CondLoop(Leave(m2, b), fr)
             ELSE Go(Push(m3, [fr EXCEPT !.k2 = b + 1, !.n = b]),
                     E(fr.vk, Elem(m3, b + 1)))
EvalCond(m, base, vk, obj) ==
    IF ~IsList(obj) THEN Return(m, base, TypeError("list"))
    ELSE CondLoop(IterNew(m, obj), [Fr("eval_cond", base, vk) EXCEPT !.k = Len(m.roots) + 1])
CondTest(m, fr, v) ==
    IF IsNil(v) THEN CondLoop(Leave(m, fr.n), fr)
    ELSE IF IterEmpty(m, fr.k2) THEN Return(m, fr.base, OkR(v))
    ELSE ImplicitProgn(m, fr.base, fr.vk, fr.k2)

\* Interpreter::eval_and
AndLoop(m, fr) ==
    IF IterEmpty(m, fr.k) THEN Return(m, fr.base, OkR(RootData(m, fr.n)[1]))
    ELSE LET m1 == IterNext(m, fr.k)
         IN  Go(Push(m1, fr), E(fr.vk, Elem(m1, fr.k)))
EvalAnd(m, base, vk, obj) ==
    LET lk == Len(m.roots) + 1
    IN  IF ~IsList(obj) THEN Return(m, base, TypeError("list"))
        ELSE AndLoop(IterNew(PushRoot(m, <<True>>), obj),
                     [Fr("eval_and", base, vk) EXCEPT !.k = lk + 1, !.n = lk])
AndNoStop(m, fr, v) == AndLoop(SetRoot(m, fr.n, <<v>>), fr)
AndNext(m, fr, v) ==
    IF IsNil(v) THEN Return(m, fr.base, OkR(Nil))
    ELSE AndLoop(SetRoot(m, fr.n, <<v>>), fr)

\* Interpreter::eval_or
OrLoop(m, fr) ==
    IF IterEmpty(m, fr.k) THEN Return(m, fr.base, OkR(Nil))
    ELSE LET m1 == IterNext(m, fr.k)
         IN  Go(Push(m1, fr), E(fr.vk, Elem(m1, fr.k)))
EvalOr(m, base, vk, obj) ==
    IF ~IsList(obj) THEN Return(m, base, TypeError("list"))
    ELSE OrLoop(IterNew(m, obj), [Fr("eval_or", base, vk) EXCEPT !.k = Len(m.roots) + 1])
OrNextTrue(m, fr, v) ==
    IF ~IsNil(v) THEN Return(m, fr.base, OkR(True)) ELSE OrLoop(m, fr)
OrNext(m, fr, v) ==
    IF ~IsNil(v) THEN Return(m, fr.base, OkR(v)) ELSE OrLoop(m, fr)

\* Interpreter::eval_if
EvalIf(m, base, vk, obj) ==
    LET m1 == IterNew(m, obj)
        k == Len(m.roots) + 1
        m2 == IterNext(m1, k)
        condition == Elem(m2, k)
        m3 == PushRoot(m2, <<condition>>)
        m4 == IterNext(m3, k)
        m5 == PushRoot(m4, <<Elem(m4, k)>>)
    IN  IF ~IsList(obj) THEN Return(m, base, TypeError("list"))
        ELSE IF IterEmpty(m1, k) THEN Return(m1, base, ArgError("if"))
        ELSE IF IterEmpty(m3, k) THEN Return(m3, base, ArgError("if"))
        ELSE Go(Push(m5, [Fr("eval_if", base, vk) EXCEPT !.k = k, !.k2 = k + 3]),
                E(vk, condition))
IfTest(m, fr, v) ==
    IF ~IsNil(v)
    THEN Go(Push(m, Fr("tail", fr.base, fr.vk)), E(fr.vk, RootData(m, fr.k2)[1]))
    ELSE ImplicitProgn(m, fr.base, fr.vk, fr.k)

\* Interpreter::setq (with Interpreter::pairs)
SetqLoop(m, fr) ==
    IF IterEmpty(m, fr.k)
    THEN IF fr.n2 < 2 THEN Return(m, fr.base, ArgError("setq"))
         ELSE Return(m, fr.base, OkR(RootData(m, fr.n)[1]))
    ELSE LET m1 == IterNext(m, fr.k)
             var == Elem(m1, fr.k)
             m2 == IterNext(m1, fr.k)
             val == Elem(m2, fr.k)
         IN  IF IterEmpty(m1, fr.k) THEN Return(m1, fr.base, ArgError("setq"))
             ELSE IF ~IsSym(var) THEN Return(m2, fr.base, TypeError("symbol"))
             ELSE Go(Push(PushRoot(m2, <<val>>),
                          [fr EXCEPT !.x = var, !.k2 = Len(m2.roots)]),
                     E(fr.vk, val))
Setq(m, base, vk, obj) ==
    LET k == Len(m.roots) + 1
    IN  IF ~IsList(obj) THEN Return(m, base, TypeError("list"))
        ELSE SetqLoop(PushRoot(IterNew(m, obj), <<Nil>>),
                      [Fr("setq", base, vk) EXCEPT !.k = k, !.n = k + 2])
SetqNext(m, fr, v) ==
    LET w == VarSet(m, fr.vk, fr.x, v)
    IN  IF ~w.r.ok THEN Return(w.m, fr.base, w.r)
        ELSE SetqLoop(Leave(SetRoot(w.m, fr.n, <<v>>), fr.k2), [fr EXCEPT !.n2 = @ + 2])

TruncateNothing(seq, n) == seq
Truncate(seq, n) == IF Len(seq) > n THEN SubSeq(seq, 1, n) ELSE seq

\* The loop that ends eval_let: every saved (symbol, value) pair is written
\* back, in the order in which the pairs were saved.
RECURSIVE RestoreDynamic(_, _)
RestoreDynamic(ev, dyn) ==
    IF Len(dyn) = 0 THEN ev
    ELSE RestoreDynamic([ev EXCEPT ![dyn[1][2]] = dyn[2]], SubSeq(dyn, 3, Len(dyn)))

\* The symbols a vector of (symbol, value) pairs names.
PairSyms(dyn) == {dyn[i][2] : i \in {j \in DOMAIN dyn : j % 2 = 1}}

\* Record of one eval_let: the lexical stack and env.vars at entry and at
\* exit, the symbols it rebound dynamically, whether it returned Ok, and
\* the length of the trace when it returned.
LetEvent(ok, m, fr) ==
    [ok |-> ok, lex0 |-> fr.lex0, lex1 |-> Lex(m, fr.vk), ev0 |-> fr.ev0, ev1 |-> m.ev,
     reb |-> PairSyms(RootData(m, fr.k2)), parallel |-> fr.s = "let",
     at |-> Len(m.trace), saved |-> RootData(m, fr.k2)]

\* eval_let left by an error (the ? operator): nothing is undone.
FailLet(m, fr, r) ==
    Return([m EXCEPT !.lets = Append(@, LetEvent(FALSE, m, fr))], fr.base, r)

\* The end of eval_let: the lexical stack is truncated and the saved values
\* are written back.
LetExit(m, fr, v) ==
    LET m4 == SetRoot(m, fr.vk, Truncate(Lex(m, fr.vk), fr.n))
        m5 == [m4 EXCEPT !.ev = RestoreDynamic(@, RootData(m4, fr.k2))]
    IN  Return([m5 EXCEPT !.lets = Append(@, LetEvent(TRUE, m5, fr))], fr.base, OkR(v))

\* The body of eval_let.
LetBody(m, fr) ==
    ImplicitProgn(Push(m, [fr EXCEPT !.f = "let_body"]), Len(m.roots), fr.vk, fr.k)

\* The tail of let_bind_serial's loop body and of let_bind_parallel's second
\* loop: a symbol present in env.vars is saved and rebound in place, any
\* other gets a new cell on the lexical stack.
LetInstall(m, vk, dk, var, val) ==
    IF var[2] \in DOMAIN m.ev
    THEN [SetRoot(m, dk, RootData(m, dk) \o <<var, m.ev[var[2]]>>)
            EXCEPT !.ev[var[2]] = val]
    ELSE LET c == AllocCons(m, var, val)
         IN  SetRoot(c.m, vk, Lex(c.m, vk) \o <<c.v>>)


\* The second loop of let_bind_parallel.
RECURSIVE InstallAll(_, _, _, _)
InstallAll(m, vk, dk, binds) ==
    IF Len(binds) = 0 THEN m
    ELSE InstallAll(LetInstall(m, vk, dk, binds[1], binds[2]), vk, dk,
                    SubSeq(binds, 3, Len(binds)))


\* let_bind_serial and let_bind_parallel with let_bind_value.  In the frame,
\* n2 is the index of the iterator over the bindings; the Roots of
\* let_bind_value follow it, and the Root let_bindings precedes it.
RECURSIVE SerialLoop(_, _), ParallelLoop(_, _), LetBindValue(_, _, _), LetValue(_, _, _)

\* Interpreter::let_bind_value up to the evaluation of the init form.
LetBindValue(m, fr, cons) ==
    LET rest == Cdr(m.heap, cons)
        m1 == IterNew(m, rest)
        ik == Len(m.roots) + 1
        m2 == IterNext(m1, ik)
    IN  IF ~IsList(rest) THEN FailLet(m, fr, TypeError("list"))
        ELSE IF IterEmpty(m1, ik) THEN LetValue(m1, fr, Nil)
        ELSE Go(Push(m2, fr), E(fr.vk, Elem(m2, ik)))

\* The rest of let_bind_value, then the rest of the loop body of its caller.
LetValue(m, fr, v) ==
    LET bk == fr.n2
        name == Car(m.heap, Elem(m, bk))
        m1 == Leave(m, bk + 1)
    IN  IF ~IterEmpty(m, bk + 2)
        THEN FailLet(m, fr, ErrR("Let binding can only have 1 value"))
        ELSE IF ~IsSym(name) THEN FailLet(m, fr, ErrR("let variable must be a symbol"))
        ELSE IF fr.f = "let_serial"
        THEN SerialLoop(LetInstall(m1, fr.vk, fr.k2, name, v), fr)
        ELSE ParallelLoop(SetRoot(m1, bk - 1, RootData(m1, bk - 1) \o <<name, v>>), fr)

\* Interpreter::let_bind_serial
SerialLoop(m, fr) ==
    IF IterEmpty(m, fr.n2) THEN LetBody(Leave(m, fr.n2 - 1), fr)
    ELSE LET m1 == IterNext(m, fr.n2)
             binding == Elem(m1, fr.n2)
         IN  IF IsCons(binding) THEN LetBindValue(m1, fr, binding)
             ELSE IF IsSym(binding)
             THEN SerialLoop(LetInstall(m1, fr.vk, fr.k2, binding, Nil), fr)
             ELSE FailLet(m1, fr, TypeError("cons"))
LetBindSerial(m, fr, form) ==
    IF ~IsList(form) THEN FailLet(m, fr, TypeError("list"))
    ELSE SerialLoop(IterNew(m, form),
                    [fr EXCEPT !.f = "let_serial", !.n2 = Len(m.roots) + 1])

\* let_bind_parallel that installs each binding before the next init form.
LetBindOneByOne(m, fr, form) == LetBindSerial(m, fr, form)

\* Interpreter::let_bind_parallel
ParallelLoop(m, fr) ==
    IF IterEmpty(m, fr.n2)
    THEN LetBody(Leave(InstallAll(m, fr.vk, fr.k2, RootData(m, fr.n2 - 1)), fr.n2 - 2), fr)
    ELSE LET m1 == IterNext(m, fr.n2)
             binding == Elem(m1, fr.n2)
         IN  IF IsCons(binding) THEN LetBindValue(m1, fr, binding)
             ELSE IF IsSym(binding)
             THEN ParallelLoop(SetRoot(m1, fr.n2 - 1,
                                       RootData(m1, fr.n2 - 1) \o <<binding, Nil>>), fr)
             ELSE FailLet(m1, fr, TypeError("cons"))
LetBindParallel(m, fr, form) ==
    LET m1 == PushRoot(m, <<>>)
    IN  IF ~IsList(form) THEN FailLet(m1, fr, TypeError("list"))
        ELSE ParallelLoop(IterNew(m1, form),
                          [fr EXCEPT !.f = "let_parallel", !.n2 = Len(m.roots) + 2])

\* Interpreter::eval_let
EvalLet(m, base, vk, form, parallel) ==
    LET k == Len(m.roots) + 1
        m2 == PushRoot(IterNew(m, form), <<>>)
        fr == [Fr("let", base, vk)
                 EXCEPT !.k = k, !.k2 = k + 2, !.n = Len(Lex(m, vk)),
                        !.s = IF parallel THEN "let" ELSE "let*",
                        !.lex0 = Lex(m, vk), !.ev0 = m.ev]
        m3 == IterNext(m2, k)
    IN  IF ~IsList(form) THEN Return(m, base, TypeError("list"))
        ELSE IF IterEmpty(m2, k) THEN Return(m2, base, ArgError("let"))
        ELSE IF parallel THEN LetBindParallel(m3, fr, Elem(m3, k))
        ELSE LetBindSerial(m3, fr, Elem(m3, k))

(***************************************************************************)
(* Printing (Display), as far as error messages and backtrace frames need  *)
(* it.                                                                     *)
(***************************************************************************)
RECURSIVE ShowVal(_, _, _), ShowTail(_, _, _)
ShowVal(h, v, d) ==
    CASE v[1] = "int" -> ToString(v[2])
      [] v[1] = "nil" -> "nil"
      [] v[1] = "t" -> "t"
      [] v[1] = "str" -> "\"" \o v[2] \o "\""
      [] v[1] = "sym" -> SymName(h, v)
      [] v[1] = "subr" -> "#<subr " \o v[2] \o ">"
      [] v[1] = "cons" ->
            IF d = 0 THEN "(...)" ELSE "(" \o ShowVal(h, h[v[2]].a, d - 1) \o ShowTail(h, h[v[2]].d, d - 1)
      [] OTHER -> "#<freed>"
ShowTail(h, v, d) ==
    IF IsNil(v) THEN ")"
    ELSE IF IsCons(v) /\ d > 0
    THEN " " \o ShowVal(h, h[v[2]].a, d - 1) \o ShowTail(h, h[v[2]].d, d - 1)
    ELSE " . " \o ShowVal(h, v, d) \o ")"

ShowDepth == 6

RECURSIVE ShowSeq(_, _)
ShowSeq(h, seq) ==
    IF Len(seq) = 0 THEN ""
    ELSE ShowVal(h, seq[1], ShowDepth) \o (IF Len(seq) > 1 THEN ", " ELSE "")
         \o ShowSeq(h, Tail(seq))

\* format!("{name} {args:?}")
Frame(h, name, args) == name \o " [" \o ShowSeq(h, args) \o "]"

RECURSIVE Lines(_)
Lines(bt) == IF Len(bt) = 0 THEN "" ELSE bt[1] \o "\n" \o Lines(Tail(bt))

\* Display for EvalError: the error, then one line per backtrace frame.
Display(r) == r.e \o "\n" \o Lines(r.bt)

\* An EvalError turned into the anyhow::Error a native returns: it shows as
\* the Display of the EvalError.
IntoAnyhow(r) == IF r.ok \/ r.panic THEN r ELSE [r EXCEPT !.e = Display(r), !.bt = <<>>]

\* EvalError::with_trace: a new EvalError around the error a native returned.
WithTrace(h, r, name, args) == [r EXCEPT !.bt = <<Frame(h, name, args)>>]

\* EvalError::add_trace
AddTrace(h, r, name, args) == [r EXCEPT !.bt = Append(@, Frame(h, name, args))]

(***************************************************************************)
(* condition-case and function.                                            *)
(***************************************************************************)
\* The check of a handler's condition: "" when the handler applies, else the
\* error condition_case returns.
RECURSIVE ConditionListError(_, _)
ConditionListError(h, v) ==
    IF IsNil(v) THEN ""
    ELSE IF ~IsCons(v) THEN "Expected type list"
    ELSE IF ~Eq(h[v[2]].a, DEBUG) /\ ~Eq(h[v[2]].a, ERROR)
    THEN "non-error conditions not yet supported"
    ELSE ConditionListError(h, h[v[2]].d)
\* The check without the arm for a list of conditions.
ConditionErrorSymbolOnly(h, condition) ==
    IF Eq(condition, ERROR) THEN "" ELSE "Invalid condition handler:"
\* No check: every handler that is a cons applies.
ConditionErrorNone(h, condition) == ""
ConditionError(h, condition) ==
    IF Eq(condition, ERROR) THEN ""
    ELSE IF IsCons(condition) THEN ConditionListError(h, condition)
    ELSE "Invalid condition handler:"

\* The elements of a list and what its last cdr is.
RECURSIVE Spine(_, _)
Spine(h, v) ==
    IF IsCons(v)
    THEN LET d == Spine(h, h[v[2]].d)
         IN  [elems |-> <<h[v[2]].a>> \o d.elems, tl |-> d.tl]
    ELSE [elems |-> <<>>, tl |-> v]

\* A form as the reader's text nests it: an atom by its text, a cons by the
\* forms of its elements and the text of its last cdr.
TreeDepth == 12
RECURSIVE Tree(_, _, _)
Tree(h, v, n) ==
    IF IsCons(v) /\ n > 0
    THEN LET s == Spine(h, v)
         IN  [c |-> TRUE, x |-> "",
              l |-> [i \in DOMAIN s.elems |-> Tree(h, s.elems[i], n - 1)],
              tl |-> ShowVal(h, s.tl, 0)]
    ELSE [c |-> FALSE, x |-> ShowVal(h, v, 0), l |-> <<>>, tl |-> "nil"]

\* Record of one handler run: the number of eval_let records at the entry
\* of condition_case and when the handler starts, the lexical stack and
\* env.vars the handler starts with (before its variable is pushed), and,
\* once condition_case has returned, the lexical stack it leaves.
HandlerEvent(m, fr) ==
    [from |-> fr.n2, to |-> Len(m.lets), lex |-> Lex(m, fr.vk), ev |-> m.ev,
     returned |-> FALSE, lexEnd |-> <<>>, evEnd |-> NoEnv,
     binding |-> Tree(m.heap, Nil, TreeDepth)]

\* The error arm of condition_case: find the handler, bind the error, run
\* the handler's body.
RECURSIVE HandlerLoop(_, _, _)
HandlerLoop(m, fr, e) ==
    IF IterEmpty(m, fr.k) THEN Return(m, fr.base, e)
    ELSE LET m1 == IterNext(m, fr.k)
             handler == Elem(m1, fr.k)
             ce == ConditionError(m1.heap, Car(m1.heap, handler))
             m2 == [m1 EXCEPT !.handlers = Append(@, HandlerEvent(m1, fr))]
             c3 == AllocCons(m2, StrV(Display(e)), Nil)
             c2 == AllocCons(c3.m, ERROR, c3.v)
             c1 == AllocCons(c2.m, RootData(m2, fr.n)[1], c2.v)
             m3 == [SetRoot(c1.m, fr.vk, Append(Lex(c1.m, fr.vk), c1.v))
                      EXCEPT !.handlers[Len(m2.handlers)].binding =
                                 Tree(c1.m.heap, c1.v, TreeDepth)]
             list == Cdr(m3.heap, handler)
             b == Len(m3.roots)
         IN  IF IsNil(handler) THEN HandlerLoop(m1, fr, e)
             ELSE IF ~IsCons(handler)
             THEN Return(m1, fr.base, ErrR("Invalid condition handler:"))
             ELSE IF ce # "" THEN Return(m1, fr.base, ErrR(ce))
             ELSE IF ~IsList(list)
             THEN Return([m3 EXCEPT !.handlers = m1.handlers], fr.base, OkR(Nil))
             ELSE ImplicitProgn(Push(IterNew(m3, list),
                                     [fr EXCEPT !.f = "cc_handler",
                                                !.n2 = Len(m3.handlers)]),
                                b + 2, fr.vk, b + 1)

\* The handler's body returned Ok: its variable is popped.
HandlerDone(m, fr, v) ==
    LET m1 == SetRoot(m, fr.vk, SubSeq(Lex(m, fr.vk), 1, Len(Lex(m, fr.vk)) - 1))
    IN  Return([m1 EXCEPT !.handlers[fr.n2].returned = TRUE,
                          !.handlers[fr.n2].lexEnd = Lex(m1, fr.vk),
                          !.handlers[fr.n2].evEnd = m1.ev],
               fr.base, OkR(v))

\* Interpreter::condition_case
ConditionCase(m, base, vk, form) ==
    LET m1 == IterNew(m, form)
        k == Len(m.roots) + 1
        m2 == IterNext(m1, k)
        m3 == PushRoot(m2, <<Elem(m2, k)>>)
        m4 == IterNext(m3, k)
    IN  IF ~IsList(form) THEN Return(m, base, TypeError("list"))
        ELSE IF IterEmpty(m1, k) THEN Return(m1, base, ArgError("condition-case"))
        ELSE IF IterEmpty(m3, k) THEN Return(m3, base, ArgError("condition-case"))
        ELSE Go(Push(m4, [Fr("cc_body", base, vk)
                            EXCEPT !.k = k, !.n = k + 2, !.n2 = Len(m.lets)]),
                E(vk, Elem(m4, k)))

\* eval_function with fresh copies of the cells in place of the cells
\* themselves.
RECURSIVE CaptureEnvCopy(_, _)
CaptureEnvCopy(m, lex) ==
    IF Len(lex) = 0 THEN [m |-> m, cells |-> <<>>]
    ELSE LET c == AllocCons(m, Car(m.heap, lex[1]), Cdr(m.heap, lex[1]))
             rest == CaptureEnvCopy(c.m, Tail(lex))
         IN  [m |-> rest.m, cells |-> <<c.v>> \o rest.cells]

\* The temporary vector of eval_function: the cells of the lexical stack
\* themselves, oldest first.
CaptureEnv(m, lex) == [m |-> m, cells |-> lex]

\* Every cell of the environment list, whether or not a t closes it.
RECURSIVE ParseClosureEnvAll(_, _)
ParseClosureEnvAll(h, obj) ==
    IF ~IsCons(obj) THEN [e |-> "", env |-> <<>>]
    ELSE LET form == h[obj[2]].a
             rest == ParseClosureEnvAll(h, h[obj[2]].d)
         IN  IF IsCons(form) THEN [e |-> "", env |-> <<form>> \o rest.env] ELSE rest

\* parse_closure_env: the cells before the closing t, or an error.
RECURSIVE ParseClosureEnv(_, _)
ParseClosureEnv(h, obj) ==
    IF IsNil(obj) THEN [e |-> "Closure env did not end with t", env |-> <<>>]
    ELSE IF ~IsCons(obj) THEN [e |-> "Expected type list", env |-> <<>>]
    ELSE LET form == h[obj[2]].a
             rest == ParseClosureEnv(h, h[obj[2]].d)
         IN  IF IsCons(form) THEN [e |-> rest.e, env |-> <<form>> \o rest.env]
             ELSE IF Eq(form, True) THEN [e |-> "", env |-> <<>>]
             ELSE [e |-> "Invalid closure environment member", env |-> <<>>]

\* Record of one closure creation: the lexical stack, the cells captured,
\* the closure, and what parse_closure_env makes of its environment.
ClosureEvent(lex, cells, closure, parsed) ==
    [lex |-> lex, cells |-> cells, closure |-> closure, parsed |-> parsed]

\* Interpreter::eval_function
EvalFunction(m, base, vk, obj) ==
    LET l == ListElems(m.heap, obj)
        form == l.elems[1]
        cap == CaptureEnv(m, Lex(m, vk))
        t == AllocCons(cap.m, True, Nil)
        env == SliceIntoList(t.m, cap.cells, t.v)
        end == AllocCons(env.m, env.v, Cdr(m.heap, form))
        closure == AllocCons(end.m, CLOSURE, end.v)
    IN  IF ~l.ok THEN Return(m, base, TypeError("list"))
        ELSE IF NumArgs(l.elems) # 1 THEN Return(m, base, ArgError("function"))
        ELSE IF IsCons(form) /\ Eq(Car(m.heap, form), LAMBDA_)
        THEN Return([closure.m EXCEPT !.closures =
                        Append(@, ClosureEvent(Lex(m, vk), cap.cells, closure.v,
                                               ParseClosureEnv(closure.m.heap, env.v)))],
                    base, OkR(closure.v))
        ELSE Return(m, base, OkR(form))

(***************************************************************************)
(* Function calls.                                                         *)
(***************************************************************************)
MaxHops == 3

IsFunction(v) == v[1] = "cons" \/ v[1] = "subr" \/ v[1] = "sym"

\* Cons::try_as_macro: the function of (macro . function), or Nil.
TryAsMacro(h, form) ==
    IF IsCons(form) /\ Eq(Car(h, form), MACRO) /\ IsFunction(Cdr(h, form))
    THEN Cdr(h, form) ELSE Nil

\* Interpreter::eval_call: entry, the argument loop, and the macro's
\* expansion coming back.
\* Record of one eval_call leaving its argument loop: the argument forms of
\* the call and the forms eval_form was entered with on its behalf.
ArgEvals(tr, d) ==
    LET below == {i \in DOMAIN tr : tr[i].d < d}
        from == IF below = {} THEN 0 ELSE CHOOSE i \in below : \A j \in below : j <= i
        idx == {i \in DOMAIN tr : i > from /\ tr[i].d = d /\ tr[i].t = "eval"}
    IN  [n \in 1..Cardinality(idx) |->
            tr[CHOOSE i \in idx : Cardinality({j \in idx : j <= i}) = n].x]
CallEvent(m, fr, ok) ==
    LET forms == ListElems(m.heap, RootData(m, fr.base + 1)[1]).elems
    IN  [ok |-> ok, name |-> fr.s, d |-> Len(m.k) + 1, at |-> Len(m.trace),
         forms |-> [i \in DOMAIN forms |-> ShowVal(m.heap, forms[i], ShowDepth)],
         evald |-> ArgEvals(m.trace, Len(m.k) + 1)]
ArgLoop(m, fr) ==
    IF IterEmpty(m, fr.k)
    THEN Go(Push([m EXCEPT !.calls = Append(@, CallEvent(m, fr, TRUE))],
                 Fr("tail", fr.base, fr.vk)),
            C(RootData(m, fr.n)[1], fr.k2, fr.s))
    ELSE LET m1 == IterNext(m, fr.k)
         IN  Go(Push(m1, fr), E(fr.vk, Elem(m1, fr.k)))
ArgNext(m, fr, v) == ArgLoop(SetRoot(m, fr.k2, Append(RootData(m, fr.k2), v)), fr)
EvalCall(m, base, vk, name, args) ==
    LET func == FollowIndirect(m.heap, name, MaxHops)
        mcro == TryAsMacro(m.heap, func)
        ml == ListElems(m.heap, args)
        fk == Len(m.roots) + 1
        mm == PushRoot(PushRoot(m, ml.elems), <<mcro>>)
        m1 == PushRoot(m, <<func>>)
        m2 == PushRoot(IterNew(m1, args), <<>>)
    IN  IF IsNil(func)
        THEN Return(m, base, ErrR("Invalid function: " \o SymName(m.heap, name)))
        ELSE IF ~IsNil(mcro)
        THEN IF ~ml.ok THEN Return(m, base, TypeError("list"))
             ELSE Go(Push(mm, Fr("macro", base, vk)), C(mcro, fk, SymName(m.heap, name)))
        ELSE IF ~IsList(args) THEN Return(m1, base, TypeError("list"))
        ELSE ArgLoop(m2, [Fr("args", base, vk)
                            EXCEPT !.k = fk + 1, !.k2 = fk + 3, !.n = fk,
                                   !.s = SymName(m.heap, name)])
\* The loop going on to the next argument form after an error.
ArgFailSkip(m, fr, e) == ArgLoop(m, fr)

\* An argument form returned an error: the ? operator of the loop.
ArgFail(m, fr, e) ==
    Return([m EXCEPT !.calls = Append(@, CallEvent(m, fr, FALSE))], fr.base, e)
\* The value of the macro returned as the value of the form.
MacroExpandedNotEvaluated(m, fr, v) == Return(m, fr.base, OkR(v))
MacroExpanded(m, fr, v) ==
    Go(Push(PushRoot(m, <<v>>), Fr("tail", fr.base, fr.vk)), E(fr.vk, v))

\* parse_arg_list: required, optional and rest parameters.  mode is the
\* vector arg_type points at.
RECURSIVE ParseArgList(_, _, _)
ParseArgList(h, bindings, mode) ==
    LET none == [e |-> "", required |-> <<>>, optional |-> <<>>, rest |-> <<>>]
    IN  IF IsNil(bindings) THEN none
        ELSE IF ~IsCons(bindings) THEN [none EXCEPT !.e = "Expected type list"]
        ELSE LET sym == h[bindings[2]].a
                 tl == h[bindings[2]].d
             IN  IF ~IsSym(sym) THEN [none EXCEPT !.e = "Expected type symbol"]
                 ELSE IF Eq(sym, AND_OPTIONAL) THEN ParseArgList(h, tl, "optional")
                 ELSE IF Eq(sym, AND_REST)
                 THEN IF IsNil(tl) THEN none
                      ELSE IF ~IsCons(tl) THEN [none EXCEPT !.e = "Expected type list"]
                      ELSE IF ~IsSym(h[tl[2]].a)
                      THEN [none EXCEPT !.e = "Expected type symbol"]
                      ELSE IF ~IsNil(h[tl[2]].d)
                      THEN [none EXCEPT !.e = "Found multiple arguments after &rest"]
                      ELSE [none EXCEPT !.rest = <<h[tl[2]].a>>]
                 ELSE LET r == ParseArgList(h, tl, mode)
                      IN  IF mode = "required"
                          THEN [r EXCEPT !.required = <<sym>> \o @]
                          ELSE [r EXCEPT !.optional = <<sym>> \o @]

\* The loops of bind_args over the required and the optional names: one fresh
\* (name . value) cell each, pushed on vars.
RECURSIVE BindNames(_, _, _, _)
BindNames(m, names, values, acc) ==
    IF Len(names) = 0 THEN [m |-> m, vars |-> acc, values |-> values]
    ELSE LET val == IF Len(values) > 0 THEN Head(values) ELSE Nil
             c == AllocCons(m, Head(names), val)
         IN  BindNames(c.m, Tail(names),
                       IF Len(values) > 0 THEN Tail(values) ELSE values,
                       Append(acc, c.v))

\* bind_args without the check for too many arguments.
BindArgsNoExcess(m, arg_list, args, vs, name) ==
    LET p == ParseArgList(m.heap, arg_list, "required")
        b == BindNames(m, p.required \o p.optional, args, vs)
        list == SliceIntoList(b.m, b.values, Nil)
        c == AllocCons(list.m, p.rest[1], list.v)
    IN  IF p.e # "" THEN [m |-> m, r |-> ErrR(p.e), vars |-> vs]
        ELSE IF NumArgs(args) < NumArgs(p.required)
        THEN [m |-> m, r |-> ArgError(name), vars |-> vs]
        ELSE IF Len(p.rest) > 0
        THEN [m |-> c.m, r |-> OkR(Nil), vars |-> Append(b.vars, c.v)]
        ELSE [m |-> b.m, r |-> OkR(Nil), vars |-> b.vars]

\* bind_args
BindArgs(m, arg_list, args, vs, name) ==
    LET p == ParseArgList(m.heap, arg_list, "required")
        b == BindNames(m, p.required \o p.optional, args, vs)
        list == SliceIntoList(b.m, b.values, Nil)
        c == AllocCons(list.m, p.rest[1], list.v)
    IN  IF p.e # "" THEN [m |-> m, r |-> ErrR(p.e), vars |-> vs]
        ELSE IF NumArgs(args) < NumArgs(p.required)
        THEN [m |-> m, r |-> ArgError(name), vars |-> vs]
        ELSE IF Len(p.rest) > 0
        THEN [m |-> c.m, r |-> OkR(Nil), vars |-> Append(b.vars, c.v)]
        ELSE IF Len(b.values) > 0
        THEN [m |-> b.m, r |-> ArgError(name), vars |-> b.vars]
        ELSE [m |-> b.m, r |-> OkR(Nil), vars |-> b.vars]

\* bind_variables that leaves the cells of the environment out.
BindVariablesNoEnv(m, k, args, name) ==
    LET m1 == IterNext(m, k)
        m2 == IterNext(m1, k)
    IN  IF IterEmpty(m, k) \/ IterEmpty(m1, k)
        THEN [m |-> m, r |-> ErrR("Closure missing environment"), vars |-> <<>>]
        ELSE BindArgs(m2, Elem(m2, k), args, <<>>, name)

\* bind_variables: k is the iterator over the closure's cdr.
BindVariables(m, k, args, name) ==
    LET m1 == IterNext(m, k)
        env == ParseClosureEnv(m1.heap, Elem(m1, k))
        m2 == IterNext(m1, k)
    IN  IF IterEmpty(m, k)
        THEN [m |-> m, r |-> ErrR("Closure missing environment"), vars |-> <<>>]
        ELSE IF env.e # "" THEN [m |-> m1, r |-> ErrR(env.e), vars |-> <<>>]
        ELSE IF IterEmpty(m1, k)
        THEN [m |-> m1, r |-> ErrR("Closure missing argument list"), vars |-> <<>>]
        ELSE BindArgs(m2, Elem(m2, k), args, env.env, name)

\* The values the frames of the stack hold outside the root set.
FrameVals(k) == [i \in DOMAIN k |-> k[i].x]

\* call_closure that collects after the arguments are bound, while the new
\* cells are held by an unrooted vector.
CallClosureLateCollect(m, closure, ak, name) ==
    LET base == Len(m.roots)
        m1 == IterNew(m, Cdr(m.heap, closure))
        b == BindVariables(m1, base + 1, RootData(m1, ak), name)
        m2 == PushRoot(Collect(b.m, <<closure>> \o b.vars \o FrameVals(m.k)), b.vars)
    IN  IF ~Eq(Car(m.heap, closure), CLOSURE) THEN Return(m, base, TypeError("function"))
        ELSE IF ~b.r.ok THEN Return(b.m, base, b.r)
        ELSE ImplicitProgn(m2, base, base + 3, base + 1)

\* call_closure
CallClosure(m, closure, ak, name) ==
    LET base == Len(m.roots)
        m0 == Collect(m, <<closure>> \o RootData(m, ak) \o FrameVals(m.k))
        m1 == IterNew(m0, Cdr(m0.heap, closure))
        b == BindVariables(m1, base + 1, RootData(m1, ak), name)
        m2 == PushRoot(b.m, b.vars)
    IN  IF ~Eq(Car(m0.heap, closure), CLOSURE) THEN Return(m0, base, TypeError("function"))
        ELSE IF ~b.r.ok THEN Return(b.m, base, b.r)
        ELSE ImplicitProgn(m2, base, base + 3, base + 1)

\* The eval defun: collect, root a fresh lexical stack, evaluate the form.
EvalDefun(m, form) ==
    LET base == Len(m.roots)
        m1 == PushRoot(Collect(m, <<form>> \o FrameVals(m.k)), <<>>)
    IN  Go(Push(m1, Fr("anyhow", base, base + 1)), E(base + 1, form))

(***************************************************************************)
(* The native functions the programs below use.  Each takes the rooted     *)
(* argument vector at index ak.                                            *)
(***************************************************************************)
\* The sum of a vector of integers.
RECURSIVE Sum(_)
Sum(args) == IF Len(args) = 0 THEN 0 ELSE args[1][2] + Sum(Tail(args))

\* The argument vector of apply passed on as it is.
ApplyArgsAsGiven(h, arguments) == [ok |-> TRUE, elems |-> arguments]

\* apply: the arguments before the last, then the elements of the last.
ApplyArgs(h, arguments) ==
    IF Len(arguments) = 0 THEN [ok |-> TRUE, elems |-> <<>>]
    ELSE LET l == ListElems(h, arguments[Len(arguments)])
         IN  [ok |-> l.ok, elems |-> SubSeq(arguments, 1, Len(arguments) - 1) \o l.elems]

\* macroexpand handing the form back without a look at it.
MacroexpandNothing(m, base, args) == Return(m, base, OkR(args[1]))

\* macroexpand.  The argument count and the None of a nil environment are
\* the work of the defun wrapper.
Macroexpand(m, base, args) ==
    LET form == args[1]
        name == Car(m.heap, form)
        func == IF IsSym(name) THEN FollowIndirect(m.heap, name, MaxHops) ELSE Nil
        mcro == TryAsMacro(m.heap, func)
        ml == ListElems(m.heap, Cdr(m.heap, form))
    IN  IF Len(args) < 1 \/ Len(args) > 2 THEN Return(m, base, ArgError("macroexpand"))
        ELSE IF Len(args) = 2 /\ ~IsNil(args[2])
        THEN Return(m, base, PanicR("not implemented: macroexpand override environment"))
        ELSE IF ~IsCons(form) \/ IsNil(mcro) THEN Return(m, base, OkR(form))
        ELSE IF ~ml.ok THEN Return(m, base, TypeError("list"))
        ELSE Go(Push(PushRoot(PushRoot(m, ml.elems), <<mcro>>), Fr("anyhow", base, 0)),
                C(mcro, base + 1, SymName(m.heap, name)))

CallSubr(m, f, ak) ==
    LET args == RootData(m, ak)
        n == Len(args)
        base == Len(m.roots)
        h == m.heap
    IN  CASE f = "cons" ->
              IF n # 2 THEN Return(m, base, ArgError("cons"))
              ELSE LET c == AllocCons(m, args[1], args[2]) IN Return(c.m, base, OkR(c.v))
          [] f = "car" ->
              IF n # 1 THEN Return(m, base, ArgError("car"))
              ELSE IF ~IsList(args[1]) THEN Return(m, base, TypeError("list"))
              ELSE Return(m, base, OkR(Car(h, args[1])))
          [] f = "cdr" ->
              IF n # 1 THEN Return(m, base, ArgError("cdr"))
              ELSE IF ~IsList(args[1]) THEN Return(m, base, TypeError("list"))
              ELSE Return(m, base, OkR(Cdr(h, args[1])))
          [] f = "setcar" ->
              IF n # 2 THEN Return(m, base, ArgError("setcar"))
              ELSE IF ~IsCons(args[1]) THEN Return(m, base, TypeError("cons"))
              ELSE LET x == SetCar(h, args[1], args[2])
                   IN  IF x.ok THEN Return([m EXCEPT !.heap = x.heap], base, OkR(args[2]))
                       ELSE Return(m, base,
                                   ErrR("Attempt to call setcar on immutable cons cell"))
          [] f = "+" ->
              IF \E i \in DOMAIN args : args[i][1] # "int"
              THEN Return(m, base, TypeError("number"))
              ELSE Return(m, base, OkR(IntV(Sum(args))))
          [] f = "funcall" ->
              IF n < 1 THEN Return(m, base, ArgError("funcall"))
              ELSE IF ~IsFunction(args[1]) THEN Return(m, base, TypeError("function"))
              ELSE Go(Push(PushRoot(m, Tail(args)), Fr("anyhow", base, 0)),
                      C(args[1], base + 1, "lambda"))
          [] f = "apply" ->
              LET a == ApplyArgs(h, Tail(args))
              IN  IF n < 1 THEN Return(m, base, ArgError("apply"))
                  ELSE IF ~IsFunction(args[1]) THEN Return(m, base, TypeError("function"))
                  ELSE IF ~a.ok THEN Return(m, base, TypeError("list"))
                  ELSE Go(Push(PushRoot(m, a.elems), Fr("anyhow", base, 0)),
                          C(args[1], base + 1, "lambda"))
          [] f = "macroexpand" -> Macroexpand(m, base, args)
          [] f = "defalias" ->
              IF n < 2 \/ n > 3 THEN Return(m, base, ArgError("defalias"))
              ELSE IF ~IsSym(args[1]) THEN Return(m, base, TypeError("symbol"))
              ELSE IF IsNil(args[2])
              THEN Return([m EXCEPT !.heap[args[1][2]].d = Nil], base, OkR(args[1]))
              ELSE IF ~IsFunction(args[2]) THEN Return(m, base, TypeError("function"))
              ELSE Return([m EXCEPT !.heap = SetFunc(h, args[1], args[2])], base,
                          OkR(args[1]))
          [] f = "eval" ->
              IF n < 1 \/ n > 2 THEN Return(m, base, ArgError("eval"))
              ELSE EvalDefun(m, args[1])
          [] OTHER -> Return(m, base, ErrR("Void Function: " \o f))

\* Rt<Gc<Function>>::call
Call(m, func, ak, name) ==
    LET base == Len(m.roots)
        tr == [Fr("with_trace", base, 0) EXCEPT !.k2 = ak, !.s = name]
        f == FollowIndirect(m.heap, func, MaxHops)
    IN  CASE func[1] = "subr" -> CallSubr(Push(m, tr), func[2], ak)
          [] func[1] = "cons" ->
              CallClosure(Push(PushRoot(m, <<func>>), [tr EXCEPT !.f = "add_trace"]),
                          func, ak, name)
          [] func[1] = "sym" ->
              IF IsNil(f)
              THEN Return(m, base, ErrR("Void Function: " \o SymName(m.heap, func)))
              ELSE Go(Push(PushRoot(m, <<f>>), Fr("tail", base, 0)), C(f, ak, name))
          [] OTHER -> Return(m, base, TypeError("function"))

(***************************************************************************)
(* One step of the evaluator.                                              *)
(***************************************************************************)
\* Interpreter::eval_sexp
EvalSexp(m, vk, cons) ==
    LET base == Len(m.roots)
        forms == Cdr(m.heap, cons)
        head == Car(m.heap, cons)
        m1 == PushRoot(m, <<forms>>)
    IN  IF ~IsSym(head) THEN Return(m1, base, ErrR("Invalid Function"))
        ELSE CASE Eq(head, QUOTE) -> Return(m1, base, Quote(forms, m1.heap))
               [] Eq(head, LET_) -> EvalLet(m1, base, vk, forms, TRUE)
               [] Eq(head, LET_STAR) -> EvalLet(m1, base, vk, forms, FALSE)
               [] Eq(head, IF_) -> EvalIf(m1, base, vk, forms)
               [] Eq(head, AND) -> EvalAnd(m1, base, vk, forms)
               [] Eq(head, OR) -> EvalOr(m1, base, vk, forms)
               [] Eq(head, COND) -> EvalCond(m1, base, vk, forms)
               [] Eq(head, WHILE) -> EvalWhile(m1, base, vk, base + 1)
               [] Eq(head, PROGN) -> EvalProgn(m1, base, vk, forms)
               [] Eq(head, PROG1) -> EvalProgx(m1, base, vk, forms, 1)
               [] Eq(head, PROG2) -> EvalProgx(m1, base, vk, forms, 2)
               [] Eq(head, SETQ) -> Setq(m1, base, vk, forms)
               [] Eq(head, DEFVAR) \/ Eq(head, DEFCONST) -> Defvar(m1, base, vk, forms)
               [] Eq(head, FUNCTION) -> EvalFunction(m1, base, vk, forms)
               [] Eq(head, INTERACTIVE) -> Return(m1, base, OkR(Nil))
               [] Eq(head, CATCH) -> Catch(m1, base, vk, forms)
               [] Eq(head, CONDITION_CASE) -> ConditionCase(m1, base, vk, forms)
               [] OTHER -> EvalCall(m1, base, vk, head, forms)

\* Interpreter::eval_form
EvalForm(m, vk, obj) ==
    IF IsSym(obj) THEN Go(m, R(VarRef(m, vk, obj)))
    ELSE IF IsCons(obj) THEN EvalSexp(m, vk, obj)
    ELSE Go(m, R(OkR(obj)))

\* A nested call returned Ok(v) to the function of frame fr.
Resume(m, fr, v) ==
    CASE fr.f = "implicit_progn" -> PrognNext(m, fr, v)
      [] fr.f = "defvar" -> DefvarSet(m, fr, v)
      [] fr.f = "eval_progx" -> ProgxNext(m, fr, v)
      [] fr.f = "while_cond" -> WhileTest(m, fr, v)
      [] fr.f = "while_body" -> WhileNext(m, fr, v)
      [] fr.f = "eval_cond" -> CondTest(m, fr, v)
      [] fr.f = "eval_and" -> AndNext(m, fr, v)
      [] fr.f = "eval_or" -> OrNext(m, fr, v)
      [] fr.f = "eval_if" -> IfTest(m, fr, v)
      [] fr.f = "setq" -> SetqNext(m, fr, v)
      [] fr.f = "let_serial" \/ fr.f = "let_parallel" -> LetValue(m, fr, v)
      [] fr.f = "let_body" -> LetExit(m, fr, v)
      [] fr.f = "cc_handler" -> HandlerDone(m, fr, v)
      [] fr.f = "args" -> ArgNext(m, fr, v)
      [] fr.f = "macro" -> MacroExpanded(m, fr, v)
      [] OTHER -> Return(m, fr.base, OkR(v))

\* A nested call returned Err(e) to the function of frame fr: the ? operator
\* returns it, except where the function looks at the error.
Propagate(m, fr, e) ==
    CASE fr.f = "let_serial" \/ fr.f = "let_parallel" \/ fr.f = "let_body" ->
            FailLet(m, fr, e)
      [] fr.f = "cc_body" -> HandlerLoop(m, fr, e)
      [] fr.f = "args" -> ArgFail(m, fr, e)
      [] fr.f = "with_trace" ->
            Return(m, fr.base, WithTrace(m.heap, e, fr.s, RootData(m, fr.k2)))
      [] fr.f = "add_trace" ->
            Return(m, fr.base, AddTrace(m.heap, e, fr.s, RootData(m, fr.k2)))
      [] fr.f = "anyhow" -> Return(m, fr.base, IntoAnyhow(e))
      [] OTHER -> Return(m, fr.base, e)

\* One step: enter eval_form, enter a call, or hand a result to the
\* innermost waiting function.  A panic ends the evaluation.
\* The (name . value) cells as texts.
ShowCells(h, cells) ==
    [i \in DOMAIN cells |->
        <<ShowVal(h, Car(h, cells[i]), ShowDepth), ShowVal(h, Cdr(h, cells[i]), ShowDepth)>>]

\* env.vars by the names of the symbols.
NamedEnv(m) ==
    [n \in {x \in DOMAIN m.symMap : m.symMap[x] \in DOMAIN m.ev} |->
        ShowVal(m.heap, m.ev[m.symMap[n]], ShowDepth)]

\* Records of the step taken: eval_form entered with a form, Function::call
\* entered with a function and its argument vector (tree holds the
\* arguments as the elements of a list), a result handed back to the caller
\* (lex is the lexical stack of the caller); d is the number of active
\* functions.
EvalEvent(m) ==
    [t |-> "eval", d |-> Len(m.k), x |-> ShowVal(m.heap, m.c.form, ShowDepth),
     args |-> <<>>, ok |-> TRUE, tree |-> Tree(m.heap, m.c.form, TreeDepth),
     kind |-> m.c.form[1], lex |-> ShowCells(m.heap, Lex(m, m.c.vk)), ev |-> NamedEnv(m),
     frame |-> "", bt |-> <<>>]
InvokeEvent(m) ==
    [t |-> "call", d |-> Len(m.k), x |-> ShowVal(m.heap, m.c.form, ShowDepth),
     args |-> [i \in DOMAIN RootData(m, m.c.ak) |->
                 ShowVal(m.heap, RootData(m, m.c.ak)[i], ShowDepth)],
     ok |-> TRUE,
     tree |-> [c |-> TRUE, x |-> "",
               l |-> [i \in DOMAIN RootData(m, m.c.ak) |->
                        Tree(m.heap, RootData(m, m.c.ak)[i], TreeDepth)],
               tl |-> "nil"],
     kind |-> m.c.form[1], lex |-> <<>>,
     ev |-> NamedEnv(m),
     frame |-> Frame(m.heap, m.c.name, RootData(m, m.c.ak)), bt |-> <<>>]
ReturnEvent(m) ==
    [t |-> "ret", d |-> Len(m.k),
     x |-> IF m.c.r.ok THEN ShowVal(m.heap, m.c.r.v, ShowDepth) ELSE m.c.r.e,
     args |-> <<>>, ok |-> m.c.r.ok,
     tree |-> Tree(m.heap, IF m.c.r.ok THEN m.c.r.v ELSE Nil, TreeDepth), kind |-> "ret",
     lex |-> IF m.k[Len(m.k)].vk = 0 THEN <<>>
             ELSE ShowCells(m.heap, Lex(m, m.k[Len(m.k)].vk)),
     ev |-> NamedEnv(m),
     frame |-> "", bt |-> m.c.r.bt]

Running(m) == m.c.t = "eval" \/ m.c.t = "call" \/ (m.c.t = "ret" /\ Len(m.k) > 0)
Step(m) ==
    LET fr == m.k[Len(m.k)]
        m1 == [m EXCEPT !.k = SubSeq(@, 1, Len(@) - 1),
                        !.trace = Append(@, ReturnEvent(m))]
    IN  CASE m.c.t = "eval" ->
                EvalForm([m EXCEPT !.trace = Append(@, EvalEvent(m))], m.c.vk, m.c.form)
          [] m.c.t = "call" ->
                Call([m EXCEPT !.trace = Append(@, InvokeEvent(m))], m.c.form, m.c.ak,
                     m.c.name)
          [] m.c.t = "ret" ->
                IF m.c.r.panic THEN [m EXCEPT !.k = <<>>]
                ELSE IF m.c.r.ok THEN Resume(m1, fr, m.c.r.v)
                ELSE Propagate(m1, fr, m.c.r)

(***************************************************************************)
(* The reader.  A program is the sequence of the tokens of its text; the   *)
(* reader consumes one token at a time, keeping the lists it is inside of  *)
(* on a stack, and builds the form in the arena.                           *)
(***************************************************************************)
LP == <<"(", 0>>
RP == <<")", 0>>
DOT == <<".", 0>>
N == <<"n", 0>>
T == <<"t", 0>>
I(n) == <<"i", n>>
S(name) == <<"s", name>>

NoReader == [toks |-> <<>>, st |-> <<>>]

\* The list of `elems` ending in `tl`, built in the arena's block.
RECURSIVE ConsList(_, _, _)
ConsList(h, elems, tl) ==
    IF Len(elems) = 0 THEN [heap |-> h, v |-> tl]
    ELSE LET d == ConsList(h, Tail(elems), tl)
         IN  [heap |-> Append(d.heap, ConsCell(Head(elems), d.v, "local", TRUE)),
              v |-> ConsV(Len(d.heap) + 1)]

\* A form has been read: it is the whole input, or it goes into the list the
\* reader is inside of.
Deliver(h, map, st, v) ==
    IF Len(st) = 0
    THEN [heap |-> h, map |-> map, st |-> st, done |-> TRUE, v |-> v]
    ELSE [heap |-> h, map |-> map,
          st |-> [st EXCEPT ![Len(st)] =
                    IF @.dot THEN [@ EXCEPT !.tl = v]
                    ELSE [@ EXCEPT !.elems = Append(@, v)]],
          done |-> FALSE, v |-> Nil]

ReadToken(h, map, st, tk) ==
    CASE tk[1] = "(" ->
            [heap |-> h, map |-> map,
             st |-> Append(st, [elems |-> <<>>, dot |-> FALSE, tl |-> Nil]),
             done |-> FALSE, v |-> Nil]
      [] tk[1] = "." ->
            [heap |-> h, map |-> map, st |-> [st EXCEPT ![Len(st)].dot = TRUE],
             done |-> FALSE, v |-> Nil]
      [] tk[1] = ")" ->
            LET top == st[Len(st)]
                l == ConsList(h, top.elems, top.tl)
            IN  Deliver(l.heap, map, SubSeq(st, 1, Len(st) - 1), l.v)
      [] tk[1] = "n" -> Deliver(h, map, st, Nil)
      [] tk[1] = "t" -> Deliver(h, map, st, True)
      [] tk[1] = "i" -> Deliver(h, map, st, IntV(tk[2]))
      [] tk[1] = "s" ->
            LET x == SymbolMapIntern(h, map, tk[2])
            IN  Deliver(x.heap, x.map, st, x.sym)

\* The programs evaluated; most are taken from the tests of interpreter.rs.
Programs ==
    <<
       \* a let rebinding a special variable that its body assigns
       \*   (progn (defvar foo 1) (let ((foo 2)) (setq foo 5) foo))
       <<LP, S("progn"), LP, S("defvar"), S("foo"), I(1), RP, LP, S("let"), LP, LP,
         S("foo"), I(2), RP, RP, LP, S("setq"), S("foo"), I(5), RP, S("foo"), RP, RP>>,
       \* a let* rebinding the same special variable twice
       \*   (progn (defvar foo 1) (let* ((foo 2) (foo (+ foo 1))) foo))
       <<LP, S("progn"), LP, S("defvar"), S("foo"), I(1), RP, LP, S("let*"), LP, LP,
         S("foo"), I(2), RP, LP, S("foo"), LP, S("+"), S("foo"), I(1), RP, RP, RP,
         S("foo"), RP, RP>>,
       \* an error in the body of a let that rebound a special variable
       \*   (progn (defvar foo 1) (condition-case nil (let ((foo 2)) (if)) (error foo)))
       <<LP, S("progn"), LP, S("defvar"), S("foo"), I(1), RP, LP,
         S("condition-case"), N, LP, S("let"), LP, LP, S("foo"), I(2), RP, RP, LP,
         S("if"), RP, RP, LP, S("error"), S("foo"), RP, RP, RP>>,
       \* an error in an init form of a let* after a lexical binding
       \*   (let ((x 1)) (condition-case nil (let* ((y 2) (z (if))) y) (error x)))
       <<LP, S("let"), LP, LP, S("x"), I(1), RP, RP, LP, S("condition-case"), N, LP,
         S("let*"), LP, LP, S("y"), I(2), RP, LP, S("z"), LP, S("if"), RP, RP, RP,
         S("y"), RP, LP, S("error"), S("x"), RP, RP, RP>>,
       \* closures close over variables
       \*   (progn (setq funcs (let ((x 3)) (cons #'(lambda (y) (setq x y)) #'(lambda (y) (+ y x))))) (funcall (car funcs) 5) (funcall (cdr funcs) 4))
       <<LP, S("progn"), LP, S("setq"), S("funcs"), LP, S("let"), LP, LP, S("x"),
         I(3), RP, RP, LP, S("cons"), LP, S("function"), LP, S("lambda"), LP, S("y"),
         RP, LP, S("setq"), S("x"), S("y"), RP, RP, RP, LP, S("function"), LP,
         S("lambda"), LP, S("y"), RP, LP, S("+"), S("y"), S("x"), RP, RP, RP, RP, RP,
         RP, LP, S("funcall"), LP, S("car"), S("funcs"), RP, I(5), RP, LP,
         S("funcall"), LP, S("cdr"), S("funcs"), RP, I(4), RP, RP>>,
       \* closures in a global function close over values
       \*   (progn (setq func (let ((x 3)) (defalias 'int-test-no-cap #'(lambda (y) (+ y x))) #'(lambda (y) (setq x y)))) (funcall func 4) (int-test-no-cap 5))
       <<LP, S("progn"), LP, S("setq"), S("func"), LP, S("let"), LP, LP, S("x"),
         I(3), RP, RP, LP, S("defalias"), LP, S("quote"), S("int-test-no-cap"), RP,
         LP, S("function"), LP, S("lambda"), LP, S("y"), RP, LP, S("+"), S("y"),
         S("x"), RP, RP, RP, RP, LP, S("function"), LP, S("lambda"), LP, S("y"), RP,
         LP, S("setq"), S("x"), S("y"), RP, RP, RP, RP, RP, LP, S("funcall"),
         S("func"), I(4), RP, LP, S("int-test-no-cap"), I(5), RP, RP>>,
       \* optional and rest parameters
       \*   (funcall #'(lambda (a &optional b &rest c) (cons a c)) 1 2 3)
       <<LP, S("funcall"), LP, S("function"), LP, S("lambda"), LP, S("a"),
         S("&optional"), S("b"), S("&rest"), S("c"), RP, LP, S("cons"), S("a"),
         S("c"), RP, RP, RP, I(1), I(2), I(3), RP>>,
       \* a macro
       \*   (progn (defalias 'inc (cons 'macro #'(lambda (x) (cons '+ (cons x '(1)))))) (inc 4))
       <<LP, S("progn"), LP, S("defalias"), LP, S("quote"), S("inc"), RP, LP,
         S("cons"), LP, S("quote"), S("macro"), RP, LP, S("function"), LP,
         S("lambda"), LP, S("x"), RP, LP, S("cons"), LP, S("quote"), S("+"), RP, LP,
         S("cons"), S("x"), LP, S("quote"), LP, I(1), RP, RP, RP, RP, RP, RP, RP, RP,
         LP, S("inc"), I(4), RP, RP>>,
       \* a closure called while arguments are pending
       \*   (let* ((y 7) (x #'(lambda (x) (+ x y)))) (cons (cons 1 2) (funcall x 3)))
       <<LP, S("let*"), LP, LP, S("y"), I(7), RP, LP, S("x"), LP, S("function"), LP,
         S("lambda"), LP, S("x"), RP, LP, S("+"), S("x"), S("y"), RP, RP, RP, RP, RP,
         LP, S("cons"), LP, S("cons"), I(1), I(2), RP, LP, S("funcall"), S("x"),
         I(3), RP, RP, RP>>,
       \* a special variable holding a list
       \*   (progn (defvar bar '(1 2)) (let ((bar 0)) (funcall #'(lambda () bar))) (car bar))
       <<LP, S("progn"), LP, S("defvar"), S("bar"), LP, S("quote"), LP, I(1), I(2),
         RP, RP, RP, LP, S("let"), LP, LP, S("bar"), I(0), RP, RP, LP, S("funcall"),
         LP, S("function"), LP, S("lambda"), LP, RP, S("bar"), RP, RP, RP, RP, LP,
         S("car"), S("bar"), RP, RP>>
    >>


(***************************************************************************)
(* Evaluator sessions: forms are read and evaluated one after the other in *)
(* the same arena and environment, as check_interpreter does.              *)
(***************************************************************************)
NoLog ==
    [gcs |-> <<>>, lets |-> <<>>, handlers |-> <<>>, closures |-> <<>>,
     trace |-> <<>>, calls |-> <<>>]

Machine(h, map, ev, rs, c, k, lg, gcOn) ==
    [heap |-> h, symMap |-> map, ev |-> ev, roots |-> rs, c |-> c, k |-> k,
     gcOn |-> gcOn, gcs |-> lg.gcs, lets |-> lg.lets, handlers |-> lg.handlers,
     closures |-> lg.closures, trace |-> lg.trace, calls |-> lg.calls]

\* check_interpreter from the form read to the call of eval: the form is
\* rooted and eval entered.
Enter(h, map, ev, rs, obj, gcOn) ==
    EvalDefun(PushRoot(Machine(h, map, ev, rs, Idle, <<>>, NoLog, gcOn), <<obj>>), obj)

\* What a caller can observe of an outcome: the printed value or the error.
Shown(m) ==
    IF m.c.r.ok THEN ShowVal(m.heap, m.c.r.v, ShowDepth) ELSE "error: " \o m.c.r.e
ShownEnv(m) == [s \in DOMAIN m.ev |-> ShowVal(m.heap, m.ev[s], ShowDepth)]

Init ==
    /\ heap = InitHeap
    /\ symMap = InitSymMap
    /\ envVars = NoEnv
    /\ roots = <<>>
    /\ ctl = Idle
    /\ stack = <<>>
    /\ log = NoLog
    /\ shadow = Machine(InitHeap, InitSymMap, NoEnv, <<>>, Idle, <<>>, NoLog, FALSE)
    /\ last = [op |-> "init"]
    /\ steps = 0
    /\ lock = 0
    /\ tpc = [t \in 1..NumThreads |-> "idle"]
    /\ tname = [t \in 1..NumThreads |-> ""]
    /\ tres = [t \in 1..NumThreads |-> <<>>]
    /\ locals = <<>>
    /\ frames = <<>>
    /\ reader = NoReader

\* The evaluator's machine, as the variables hold it.
M == Machine(heap, symMap, envVars, roots, ctl, stack, log, TRUE)

SetMachine(m) ==
    /\ heap' = m.heap
    /\ symMap' = m.symMap
    /\ envVars' = m.ev
    /\ roots' = m.roots
    /\ ctl' = m.c
    /\ stack' = m.k
    /\ log' = [gcs |-> m.gcs, lets |-> m.lets, handlers |-> m.handlers,
               closures |-> m.closures, trace |-> m.trace, calls |-> m.calls]

\* check_interpreter is called with the text of Programs[i].
Start(i) ==
    /\ ctl.t = "idle"
    /\ Len(reader.toks) = 0
    /\ steps < MaxEvals
    /\ reader' = [toks |-> Programs[i], st |-> <<>>]
    /\ last' = [op |-> "start", prog |-> i]
    /\ steps' = steps + 1
    /\ UNCHANGED <<heap, symMap, envVars, roots, ctl, stack, log, shadow, lock, tpc,
                   tname, tres, locals, frames>>

\* The reader takes one token; with the last one the form is complete and
\* the evaluation is entered.
ReadStep ==
    /\ Len(reader.toks) > 0
    /\ LET r == ReadToken(heap, symMap, reader.st, Head(reader.toks))
       IN  /\ reader' = [toks |-> IF r.done THEN <<>> ELSE Tail(reader.toks),
                         st |-> r.st]
           /\ IF r.done
              THEN /\ SetMachine(Enter(r.heap, r.map, envVars, roots, r.v, TRUE))
                   /\ shadow' = Enter(r.heap, r.map, envVars, roots, r.v, FALSE)
              ELSE /\ heap' = r.heap
                   /\ symMap' = r.map
                   /\ UNCHANGED <<envVars, roots, ctl, stack, log, shadow>>
    /\ UNCHANGED <<last, steps, lock, tpc, tname, tres, locals, frames>>

\* The evaluation advances by one step.
EvalStep ==
    /\ ctl.t # "idle"
    /\ Running(M) \/ Running(shadow)
    /\ SetMachine(IF Running(M) THEN Step(M) ELSE M)
    /\ shadow' = IF Running(shadow) THEN Step(shadow) ELSE shadow
    /\ UNCHANGED <<last, steps, lock, tpc, tname, tres, locals, frames, reader>>

\* eval has returned to check_interpreter, which returns in turn.
Finish ==
    /\ ctl.t # "idle"
    /\ ~Running(M) /\ ~Running(shadow)
    /\ last' = [op |-> "eval", prog |-> last.prog, ok |-> ctl.r.ok, panic |-> ctl.r.panic,
                out |-> Shown(M), env |-> ShownEnv(M),
                outNoGc |-> Shown(shadow), envNoGc |-> ShownEnv(shadow)]
    /\ ctl' = Idle
    /\ stack' = <<>>
    /\ roots' = <<>>
    /\ steps' = IF ctl.r.panic THEN MaxEvals ELSE steps
    /\ UNCHANGED <<heap, symMap, envVars, log, shadow, lock, tpc, tname, tres, locals,
                   frames, reader>>

Next ==
    \/ \E i \in 1..Len(Programs) : Start(i)
    \/ ReadStep
    \/ EvalStep
    \/ Finish

Spec == Init /\ [][Next]_vars

(***************************************************************************)
(* Sessions of one form each (SpecForms): check_interpreter is called with *)
(* one of the Forms.                                                       *)
(***************************************************************************)
MaxForms == 1

\* The forms evaluated; most are taken from the tests of interpreter.rs.
Forms ==
    <<
       \* condition-case without an error
       \*   (condition-case nil 1)
       <<LP, S("condition-case"), N, I(1), RP>>,
       \* condition-case with a handler for error
       \*   (condition-case nil (if) (error 7))
       <<LP, S("condition-case"), N, LP, S("if"), RP, LP, S("error"), I(7), RP, RP>>,
       \* the handler's last form is its value
       \*   (condition-case nil (if) (error 7 9 11))
       <<LP, S("condition-case"), N, LP, S("if"), RP, LP, S("error"), I(7), I(9),
         I(11), RP, RP>>,
       \* a handler whose cdr is not a list
       \*   (condition-case nil (if) (error . 7))
       <<LP, S("condition-case"), N, LP, S("if"), RP, LP, S("error"), DOT, I(7), RP,
         RP>>,
       \* a handler for a list of conditions
       \*   (condition-case nil (if) ((debug error) 7))
       <<LP, S("condition-case"), N, LP, S("if"), RP, LP, LP, S("debug"), S("error"),
         RP, I(7), RP, RP>>,
       \* condition-case without a handler
       \*   (condition-case nil (if))
       <<LP, S("condition-case"), N, LP, S("if"), RP, RP>>,
       \* condition-case with a nil handler only
       \*   (condition-case nil (if) nil)
       <<LP, S("condition-case"), N, LP, S("if"), RP, N, RP>>,
       \* a nil handler before a handler for error
       \*   (condition-case nil (if) nil (error 7))
       <<LP, S("condition-case"), N, LP, S("if"), RP, N, LP, S("error"), I(7), RP,
         RP>>,
       \* arguments are evaluated from left to right
       \*   (cons (setq x 1) (+ x 1))
       <<LP, S("cons"), LP, S("setq"), S("x"), I(1), RP, LP, S("+"), S("x"), I(1),
         RP, RP>>,
       \* an argument form that signals
       \*   (condition-case nil (+ 1 (if) (setq y 3)) (error y))
       <<LP, S("condition-case"), N, LP, S("+"), I(1), LP, S("if"), RP, LP,
         S("setq"), S("y"), I(3), RP, RP, LP, S("error"), S("y"), RP, RP>>,
       \* a closure called by name
       \*   (progn (defalias 'f2 #'(lambda (a b) (cons b a))) (f2 (+ 1 2) (+ 3 4)))
       <<LP, S("progn"), LP, S("defalias"), LP, S("quote"), S("f2"), RP, LP,
         S("function"), LP, S("lambda"), LP, S("a"), S("b"), RP, LP, S("cons"),
         S("b"), S("a"), RP, RP, RP, RP, LP, S("f2"), LP, S("+"), I(1), I(2), RP, LP,
         S("+"), I(3), I(4), RP, RP, RP>>,
       \* and stops at the first nil
       \*   (and 1 nil 2)
       <<LP, S("and"), I(1), N, I(2), RP>>,
       \* or stops at the first value
       \*   (or nil 3 4)
       <<LP, S("or"), N, I(3), I(4), RP>>,
       \* if with a nil condition
       \*   (if nil 5 6 7)
       <<LP, S("if"), N, I(5), I(6), I(7), RP>>,
       \* if with a true condition
       \*   (if 8 9 10)
       <<LP, S("if"), I(8), I(9), I(10), RP>>,
       \* cond stops at the first clause that holds
       \*   (cond (nil 11) (12 13) (14 15))
       <<LP, S("cond"), LP, N, I(11), RP, LP, I(12), I(13), RP, LP, I(14), I(15), RP,
         RP>>,
       \* defvar of a variable that has a value
       \*   (progn (defvar foo 1) (defvar foo 2) foo)
       <<LP, S("progn"), LP, S("defvar"), S("foo"), I(1), RP, LP, S("defvar"),
         S("foo"), I(2), RP, S("foo"), RP>>,
       \* defconst of a constant that has a value
       \*   (progn (defconst bar 1) (defconst bar 2) bar)
       <<LP, S("progn"), LP, S("defconst"), S("bar"), I(1), RP, LP, S("defconst"),
         S("bar"), I(2), RP, S("bar"), RP>>,
       \* defvar without a value form
       \*   (defvar baz)
       <<LP, S("defvar"), S("baz"), RP>>,
       \* defvar without arguments
       \*   (condition-case nil (defvar) (error 0))
       <<LP, S("condition-case"), N, LP, S("defvar"), RP, LP, S("error"), I(0), RP,
         RP>>,
       \* a keyword
       \*   (let ((:key 1)) :key)
       <<LP, S("let"), LP, LP, S(":key"), I(1), RP, RP, S(":key"), RP>>,
       \* a closure's variable and a global of the same name
       \*   (progn (setq f (let ((x 1)) #'(lambda () x))) (setq x 2) (cons (funcall f) x))
       <<LP, S("progn"), LP, S("setq"), S("f"), LP, S("let"), LP, LP, S("x"), I(1),
         RP, RP, LP, S("function"), LP, S("lambda"), LP, RP, S("x"), RP, RP, RP, RP,
         LP, S("setq"), S("x"), I(2), RP, LP, S("cons"), LP, S("funcall"), S("f"),
         RP, S("x"), RP, RP>>,
       \* a variable without a value
       \*   (condition-case nil novalue (error 0))
       <<LP, S("condition-case"), N, S("novalue"), LP, S("error"), I(0), RP, RP>>,
       \* let with two bindings
       \*   (let ((x 1) (y 2)) x y)
       <<LP, S("let"), LP, LP, S("x"), I(1), RP, LP, S("y"), I(2), RP, RP, S("x"),
         S("y"), RP>>,
       \* an inner let shadows the outer
       \*   (let ((x 1)) (cons (let ((x 3)) x) x))
       <<LP, S("let"), LP, LP, S("x"), I(1), RP, RP, LP, S("cons"), LP, S("let"), LP,
         LP, S("x"), I(3), RP, RP, S("x"), RP, S("x"), RP, RP>>,
       \* a let-bound variable is unbound after the let
       \*   (condition-case nil (progn (let* ((v 1) (u v)) (setq v 5) u) v) (error 0))
       <<LP, S("condition-case"), N, LP, S("progn"), LP, S("let*"), LP, LP, S("v"),
         I(1), RP, LP, S("u"), S("v"), RP, RP, LP, S("setq"), S("v"), I(5), RP,
         S("u"), RP, S("v"), RP, LP, S("error"), I(0), RP, RP>>,
       \* apply spreads its last argument
       \*   (apply #'+ 1 2 '(3 4))
       <<LP, S("apply"), LP, S("function"), S("+"), RP, I(1), I(2), LP, S("quote"),
         LP, I(3), I(4), RP, RP, RP>>,
       \* apply of a closure
       \*   (apply #'(lambda (a &rest r) (cons a r)) 1 2 '(3))
       <<LP, S("apply"), LP, S("function"), LP, S("lambda"), LP, S("a"), S("&rest"),
         S("r"), RP, LP, S("cons"), S("a"), S("r"), RP, RP, RP, I(1), I(2), LP,
         S("quote"), LP, I(3), RP, RP, RP>>,
       \* apply without arguments for the function
       \*   (apply #'+)
       <<LP, S("apply"), LP, S("function"), S("+"), RP, RP>>,
       \* apply with nil for the list
       \*   (apply #'+ 5 nil)
       <<LP, S("apply"), LP, S("function"), S("+"), RP, I(5), N, RP>>,
       \* apply with a last argument that is not a list
       \*   (condition-case nil (apply #'+ 1 '(2 . 3)) (error 0))
       <<LP, S("condition-case"), N, LP, S("apply"), LP, S("function"), S("+"), RP,
         I(1), LP, S("quote"), LP, I(2), DOT, I(3), RP, RP, RP, LP, S("error"), I(0),
         RP, RP>>,
       \* funcall
       \*   (funcall #'+ 1 2 3 4)
       <<LP, S("funcall"), LP, S("function"), S("+"), RP, I(1), I(2), I(3), I(4), RP>>,
       \* macroexpand calls the macro once with the forms as they are
       \*   (progn (defalias 'again (cons 'macro #'(lambda (x) (cons 'again (cons x nil))))) (macroexpand '(again (car 5))))
       <<LP, S("progn"), LP, S("defalias"), LP, S("quote"), S("again"), RP, LP,
         S("cons"), LP, S("quote"), S("macro"), RP, LP, S("function"), LP,
         S("lambda"), LP, S("x"), RP, LP, S("cons"), LP, S("quote"), S("again"), RP,
         LP, S("cons"), S("x"), N, RP, RP, RP, RP, RP, RP, LP, S("macroexpand"), LP,
         S("quote"), LP, S("again"), LP, S("car"), I(5), RP, RP, RP, RP, RP>>,
       \* macroexpand of a form that is not a macro call
       \*   (macroexpand '(car 5))
       <<LP, S("macroexpand"), LP, S("quote"), LP, S("car"), I(5), RP, RP, RP>>,
       \* macroexpand of an atom
       \*   (macroexpand 7 nil)
       <<LP, S("macroexpand"), I(7), N, RP>>,
       \* macroexpand with an environment
       \*   (macroexpand '(car 5) 1)
       <<LP, S("macroexpand"), LP, S("quote"), LP, S("car"), I(5), RP, RP, I(1), RP>>,
       \* while over a list
       \*   (progn (setq l '(1 2)) (while l (setq l (cdr l))))
       <<LP, S("progn"), LP, S("setq"), S("l"), LP, S("quote"), LP, I(1), I(2), RP,
         RP, RP, LP, S("while"), S("l"), LP, S("setq"), S("l"), LP, S("cdr"), S("l"),
         RP, RP, RP, RP>>,
       \* while with a nil condition
       \*   (while nil 1)
       <<LP, S("while"), N, I(1), RP>>,
       \* catch with a tag form that has an effect
       \*   (progn (catch (setq z 1) 2) z)
       <<LP, S("progn"), LP, S("catch"), LP, S("setq"), S("z"), I(1), RP, I(2), RP,
         S("z"), RP>>,
       \* catch with a tag form that signals
       \*   (condition-case nil (catch (if) 2) (error 0))
       <<LP, S("condition-case"), N, LP, S("catch"), LP, S("if"), RP, I(2), RP, LP,
         S("error"), I(0), RP, RP>>,
       \* catch without a tag form
       \*   (condition-case nil (catch) (error 0))
       <<LP, S("condition-case"), N, LP, S("catch"), RP, LP, S("error"), I(0), RP,
         RP>>,
       \* a closure with two cells in its environment
       \*   (funcall '(closure ((x . 1) (y . 2) t) (z) (cons x (cons y z))) 3)
       <<LP, S("funcall"), LP, S("quote"), LP, S("closure"), LP, LP, S("x"), DOT,
         I(1), RP, LP, S("y"), DOT, I(2), RP, T, RP, LP, S("z"), RP, LP, S("cons"),
         S("x"), LP, S("cons"), S("y"), S("z"), RP, RP, RP, RP, I(3), RP>>,
       \* a closure environment with a cell after the t
       \*   (condition-case nil (funcall '(closure ((x . 1) t (y . 2)) (z) (cons x y)) 3) (error 0))
       <<LP, S("condition-case"), N, LP, S("funcall"), LP, S("quote"), LP,
         S("closure"), LP, LP, S("x"), DOT, I(1), RP, T, LP, S("y"), DOT, I(2), RP,
         RP, LP, S("z"), RP, LP, S("cons"), S("x"), S("y"), RP, RP, RP, I(3), RP, LP,
         S("error"), I(0), RP, RP>>,
       \* a closure environment without a t
       \*   (condition-case nil (funcall '(closure ((x . 1)) (z) (setq w 1)) 3) (error 0))
       <<LP, S("condition-case"), N, LP, S("funcall"), LP, S("quote"), LP,
         S("closure"), LP, LP, S("x"), DOT, I(1), RP, RP, LP, S("z"), RP, LP,
         S("setq"), S("w"), I(1), RP, RP, RP, I(3), RP, LP, S("error"), I(0), RP, RP>>,
       \* a closure environment with a member that is not a cell
       \*   (condition-case nil (funcall '(closure ((x . 1) 5 t) (z) (setq w 1)) 3) (error 0))
       <<LP, S("condition-case"), N, LP, S("funcall"), LP, S("quote"), LP,
         S("closure"), LP, LP, S("x"), DOT, I(1), RP, I(5), T, RP, LP, S("z"), RP,
         LP, S("setq"), S("w"), I(1), RP, RP, RP, I(3), RP, LP, S("error"), I(0), RP,
         RP>>,
       \* a closure with nil for its environment
       \*   (condition-case nil (funcall '(closure nil (z) (setq w 1)) 3) (error 0))
       <<LP, S("condition-case"), N, LP, S("funcall"), LP, S("quote"), LP,
         S("closure"), N, LP, S("z"), RP, LP, S("setq"), S("w"), I(1), RP, RP, RP,
         I(3), RP, LP, S("error"), I(0), RP, RP>>,
       \* let evaluates the init forms before it binds
       \*   (let ((x 1)) (let ((x 2) (y x)) (cons x y)))
       <<LP, S("let"), LP, LP, S("x"), I(1), RP, RP, LP, S("let"), LP, LP, S("x"),
         I(2), RP, LP, S("y"), S("x"), RP, RP, LP, S("cons"), S("x"), S("y"), RP, RP,
         RP>>,
       \* let* binds before it evaluates the next init form
       \*   (let ((x 1)) (let* ((x 2) (y x)) (cons x y)))
       <<LP, S("let"), LP, LP, S("x"), I(1), RP, RP, LP, S("let*"), LP, LP, S("x"),
         I(2), RP, LP, S("y"), S("x"), RP, RP, LP, S("cons"), S("x"), S("y"), RP, RP,
         RP>>,
       \* let of a special variable and an init form that reads it
       \*   (progn (defvar dv 1) (let ((dv 2) (y dv)) (cons dv y)))
       <<LP, S("progn"), LP, S("defvar"), S("dv"), I(1), RP, LP, S("let"), LP, LP,
         S("dv"), I(2), RP, LP, S("y"), S("dv"), RP, RP, LP, S("cons"), S("dv"),
         S("y"), RP, RP, RP>>,
       \* let* of a special variable and an init form that reads it
       \*   (progn (defvar dv 1) (let* ((dv 2) (y dv)) (cons dv y)))
       <<LP, S("progn"), LP, S("defvar"), S("dv"), I(1), RP, LP, S("let*"), LP, LP,
         S("dv"), I(2), RP, LP, S("y"), S("dv"), RP, RP, LP, S("cons"), S("dv"),
         S("y"), RP, RP, RP>>,
       \* a closure does not see the lexical bindings of its caller
       \*   (progn (setq f #'(lambda (a) (condition-case nil q (error a)))) (let ((q 1)) (cons (funcall f 2) q)))
       <<LP, S("progn"), LP, S("setq"), S("f"), LP, S("function"), LP, S("lambda"),
         LP, S("a"), RP, LP, S("condition-case"), N, S("q"), LP, S("error"), S("a"),
         RP, RP, RP, RP, RP, LP, S("let"), LP, LP, S("q"), I(1), RP, RP, LP,
         S("cons"), LP, S("funcall"), S("f"), I(2), RP, S("q"), RP, RP, RP>>,
       \* a closure sees the special variable its caller rebound
       \*   (progn (defvar foo 1) (let ((x #'(lambda () foo)) (foo 5)) (funcall x)))
       <<LP, S("progn"), LP, S("defvar"), S("foo"), I(1), RP, LP, S("let"), LP, LP,
         S("x"), LP, S("function"), LP, S("lambda"), LP, RP, S("foo"), RP, RP, RP,
         LP, S("foo"), I(5), RP, RP, LP, S("funcall"), S("x"), RP, RP, RP>>,
       \* setq of a lexical and of a global variable
       \*   (let ((x 1)) (setq x 2 y x) (cons x y))
       <<LP, S("let"), LP, LP, S("x"), I(1), RP, RP, LP, S("setq"), S("x"), I(2),
         S("y"), S("x"), RP, LP, S("cons"), S("x"), S("y"), RP, RP>>,
       \* setq assigns to the newest lexical binding
       \*   (let ((x 1)) (cons (let ((x 2)) (setq x 3)) x))
       <<LP, S("let"), LP, LP, S("x"), I(1), RP, RP, LP, S("cons"), LP, S("let"), LP,
         LP, S("x"), I(2), RP, RP, LP, S("setq"), S("x"), I(3), RP, RP, S("x"), RP,
         RP>>,
       \* setq of a formal that also has a global value
       \*   (progn (setq a 1) (cons (funcall #'(lambda (a) (setq a 2)) 5) a))
       <<LP, S("progn"), LP, S("setq"), S("a"), I(1), RP, LP, S("cons"), LP,
         S("funcall"), LP, S("function"), LP, S("lambda"), LP, S("a"), RP, LP,
         S("setq"), S("a"), I(2), RP, RP, RP, I(5), RP, S("a"), RP, RP>>,
       \* setq without arguments
       \*   (condition-case nil (setq) (error 0))
       <<LP, S("condition-case"), N, LP, S("setq"), RP, LP, S("error"), I(0), RP, RP>>,
       \* setq with an odd number of arguments
       \*   (condition-case nil (setq x 1 y) (error x))
       <<LP, S("condition-case"), N, LP, S("setq"), S("x"), I(1), S("y"), RP, LP,
         S("error"), S("x"), RP, RP>>,
       \* setq of something that is not a symbol
       \*   (condition-case nil (setq 1 2) (error 0))
       <<LP, S("condition-case"), N, LP, S("setq"), I(1), I(2), RP, LP, S("error"),
         I(0), RP, RP>>,
       \* setq of a list after a pair
       \*   (condition-case nil (setq x 1 (y) 2) (error x))
       <<LP, S("condition-case"), N, LP, S("setq"), S("x"), I(1), LP, S("y"), RP,
         I(2), RP, LP, S("error"), S("x"), RP, RP>>,
       \* and without forms
       \*   (and)
       <<LP, S("and"), RP>>,
       \* and of forms that are not nil
       \*   (and 1 2)
       <<LP, S("and"), I(1), I(2), RP>>,
       \* or without forms
       \*   (or)
       <<LP, S("or"), RP>>,
       \* or of forms that are nil
       \*   (or nil nil)
       <<LP, S("or"), N, N, RP>>,
       \* cond with a clause without a body
       \*   (cond (nil 1) (5))
       <<LP, S("cond"), LP, N, I(1), RP, LP, I(5), RP, RP>>,
       \* cond without a clause that holds
       \*   (cond (nil 1) (nil 2))
       <<LP, S("cond"), LP, N, I(1), RP, LP, N, I(2), RP, RP>>,
       \* cond with a body of two forms
       \*   (cond (6 7 8))
       <<LP, S("cond"), LP, I(6), I(7), I(8), RP, RP>>
    >>

\* check_interpreter is called with the text of Forms[i].
StartForm(i) ==
    /\ ctl.t = "idle"
    /\ Len(reader.toks) = 0
    /\ steps < MaxForms
    /\ reader' = [toks |-> Forms[i], st |-> <<>>]
    /\ last' = [op |-> "start", prog |-> i]
    /\ steps' = steps + 1
    /\ UNCHANGED <<heap, symMap, envVars, roots, ctl, stack, log, shadow, lock, tpc,
                   tname, tres, locals, frames>>

NextForms ==
    \/ \E i \in 1..Len(Forms) : StartForm(i)
    \/ ReadStep
    \/ EvalStep
    \/ Finish

SpecForms == Init /\ [][NextForms]_vars

(***************************************************************************)
(* Sessions of one form each (SpecMoreForms) for function, the handlers of *)
(* condition-case, macros, backtraces and closures installed by defalias:  *)
(* check_interpreter is called with one of the MoreForms.                  *)
(***************************************************************************)
\* The forms evaluated; the first are those of test_functions and
\* test_condition_case.
MoreForms ==
    <<
       \* function of a lambda without formals
       \*   (function (lambda))
       <<LP, S("function"), LP, S("lambda"), RP, RP>>,
       \* function of a lambda
       \*   (function (lambda (x) x))
       <<LP, S("function"), LP, S("lambda"), LP, S("x"), RP, S("x"), RP, RP>>,
       \* function of a lambda under a let
       \*   (let ((y 1)) (function (lambda (x) x)))
       <<LP, S("let"), LP, LP, S("y"), I(1), RP, RP, LP, S("function"), LP,
         S("lambda"), LP, S("x"), RP, S("x"), RP, RP, RP>>,
       \* function of a lambda under two bindings
       \*   (let ((y 1) (z 2)) (let ((y 3)) (funcall #'(lambda (x) (cons y (cons z x))) 4)))
       <<LP, S("let"), LP, LP, S("y"), I(1), RP, LP, S("z"), I(2), RP, RP, LP,
         S("let"), LP, LP, S("y"), I(3), RP, RP, LP, S("funcall"), LP, S("function"),
         LP, S("lambda"), LP, S("x"), RP, LP, S("cons"), S("y"), LP, S("cons"),
         S("z"), S("x"), RP, RP, RP, RP, I(4), RP, RP, RP>>,
       \* function of a list that is not a lambda
       \*   (let ((y 1)) (function (car y)))
       <<LP, S("let"), LP, LP, S("y"), I(1), RP, RP, LP, S("function"), LP, S("car"),
         S("y"), RP, RP, RP>>,
       \* function without an argument
       \*   (condition-case nil (function) (error 0))
       <<LP, S("condition-case"), N, LP, S("function"), RP, LP, S("error"), I(0), RP,
         RP>>,
       \* function with two arguments
       \*   (condition-case nil (function car cdr) (error 0))
       <<LP, S("condition-case"), N, LP, S("function"), S("car"), S("cdr"), RP, LP,
         S("error"), I(0), RP, RP>>,
       \* a handler that reads its variable
       \*   (condition-case err (if) (error (car err)))
       <<LP, S("condition-case"), S("err"), LP, S("if"), RP, LP, S("error"), LP,
         S("car"), S("err"), RP, RP, RP>>,
       \* a handler that reads the message
       \*   (condition-case err (if) (error (cdr err)))
       <<LP, S("condition-case"), S("err"), LP, S("if"), RP, LP, S("error"), LP,
         S("cdr"), S("err"), RP, RP, RP>>,
       \* a handler that is a number before a handler for error
       \*   (condition-case nil (if) 5 (error 7))
       <<LP, S("condition-case"), N, LP, S("if"), RP, I(5), LP, S("error"), I(7), RP,
         RP>>,
       \* a handler for a symbol other than error
       \*   (condition-case nil (if) (void 7) (error 7))
       <<LP, S("condition-case"), N, LP, S("if"), RP, LP, S("void"), I(7), RP, LP,
         S("error"), I(7), RP, RP>>,
       \* a handler for a list with a symbol other than error and debug
       \*   (condition-case nil (if) ((error void) 7) (error 7))
       <<LP, S("condition-case"), N, LP, S("if"), RP, LP, LP, S("error"), S("void"),
         RP, I(7), RP, LP, S("error"), I(7), RP, RP>>,
       \* an invalid handler and a body that signals nothing
       \*   (condition-case nil 1 5 (void 7))
       <<LP, S("condition-case"), N, I(1), I(5), LP, S("void"), I(7), RP, RP>>,
       \* an invalid handler after a handler for error
       \*   (let ((v 1)) (condition-case nil (if) (error v) 5))
       <<LP, S("let"), LP, LP, S("v"), I(1), RP, RP, LP, S("condition-case"), N, LP,
         S("if"), RP, LP, S("error"), S("v"), RP, I(5), RP, RP>>,
       \* an invalid handler under a binding
       \*   (let ((v 1)) (condition-case nil (condition-case nil (if) (void v)) (error v)))
       <<LP, S("let"), LP, LP, S("v"), I(1), RP, RP, LP, S("condition-case"), N, LP,
         S("condition-case"), N, LP, S("if"), RP, LP, S("void"), S("v"), RP, RP, LP,
         S("error"), S("v"), RP, RP, RP>>,
       \* a macro is called with its argument form as it is
       \*   (progn (defalias 'q (cons 'macro #'(lambda (x) (cons 'quote (cons x nil))))) (q (if)))
       <<LP, S("progn"), LP, S("defalias"), LP, S("quote"), S("q"), RP, LP,
         S("cons"), LP, S("quote"), S("macro"), RP, LP, S("function"), LP,
         S("lambda"), LP, S("x"), RP, LP, S("cons"), LP, S("quote"), S("quote"), RP,
         LP, S("cons"), S("x"), N, RP, RP, RP, RP, RP, RP, LP, S("q"), LP, S("if"),
         RP, RP, RP>>,
       \* the expansion of a macro is evaluated in the lexical stack of the caller
       \*   (progn (defalias 'inc (cons 'macro #'(lambda (x) (cons '+ (cons x '(1)))))) (let ((v 4)) (inc (setq v (+ v 1)))))
       <<LP, S("progn"), LP, S("defalias"), LP, S("quote"), S("inc"), RP, LP,
         S("cons"), LP, S("quote"), S("macro"), RP, LP, S("function"), LP,
         S("lambda"), LP, S("x"), RP, LP, S("cons"), LP, S("quote"), S("+"), RP, LP,
         S("cons"), S("x"), LP, S("quote"), LP, I(1), RP, RP, RP, RP, RP, RP, RP, RP,
         LP, S("let"), LP, LP, S("v"), I(4), RP, RP, LP, S("inc"), LP, S("setq"),
         S("v"), LP, S("+"), S("v"), I(1), RP, RP, RP, RP, RP>>,
       \* a macro that signals
       \*   (progn (defalias 'bad (cons 'macro #'(lambda (x) (if)))) (condition-case nil (bad (setq z 1)) (error z)))
       <<LP, S("progn"), LP, S("defalias"), LP, S("quote"), S("bad"), RP, LP,
         S("cons"), LP, S("quote"), S("macro"), RP, LP, S("function"), LP,
         S("lambda"), LP, S("x"), RP, LP, S("if"), RP, RP, RP, RP, RP, LP,
         S("condition-case"), N, LP, S("bad"), LP, S("setq"), S("z"), I(1), RP, RP,
         LP, S("error"), S("z"), RP, RP, RP>>,
       \* an error of a native function
       \*   (car 5)
       <<LP, S("car"), I(5), RP>>,
       \* an error of a native function called by a global closure
       \*   (progn (defalias 'f #'(lambda (x) (car x))) (cons 1 (f 5)))
       <<LP, S("progn"), LP, S("defalias"), LP, S("quote"), S("f"), RP, LP,
         S("function"), LP, S("lambda"), LP, S("x"), RP, LP, S("car"), S("x"), RP,
         RP, RP, RP, LP, S("cons"), I(1), LP, S("f"), I(5), RP, RP, RP>>,
       \* an error of a native function called by a closure that funcall calls
       \*   (funcall #'(lambda (x) (car x)) 5)
       <<LP, S("funcall"), LP, S("function"), LP, S("lambda"), LP, S("x"), RP, LP,
         S("car"), S("x"), RP, RP, RP, I(5), RP>>,
       \* an error after a call that returned
       \*   (progn (car '(1)) (if))
       <<LP, S("progn"), LP, S("car"), LP, S("quote"), LP, I(1), RP, RP, RP, LP,
         S("if"), RP, RP>>,
       \* an error of a closure that a closure calls
       \*   (progn (defalias 'f #'(lambda (x) (car x))) (defalias 'g #'(lambda (y) (f y))) (g 5))
       <<LP, S("progn"), LP, S("defalias"), LP, S("quote"), S("f"), RP, LP,
         S("function"), LP, S("lambda"), LP, S("x"), RP, LP, S("car"), S("x"), RP,
         RP, RP, RP, LP, S("defalias"), LP, S("quote"), S("g"), RP, LP,
         S("function"), LP, S("lambda"), LP, S("y"), RP, LP, S("f"), S("y"), RP, RP,
         RP, RP, LP, S("g"), I(5), RP, RP>>,
       \* the variable of a handler whose cdr is not a list, read after the condition-case
       \*   (progn (condition-case err (if) (error . 7)) err)
       <<LP, S("progn"), LP, S("condition-case"), S("err"), LP, S("if"), RP, LP,
         S("error"), DOT, I(7), RP, RP, S("err"), RP>>,
       \* the variable of a handler that signals, read by the handler of an outer condition-case
       \*   (condition-case nil (condition-case err (if) (error (if))) (error err))
       <<LP, S("condition-case"), N, LP, S("condition-case"), S("err"), LP, S("if"),
         RP, LP, S("error"), LP, S("if"), RP, RP, RP, LP, S("error"), S("err"), RP,
         RP>>,
       \* a closure installed by defalias assigns a captured variable
       \*   (progn (let ((x 3)) (defalias 'setx #'(lambda (y) (setq x y)))) (setx 5))
       <<LP, S("progn"), LP, S("let"), LP, LP, S("x"), I(3), RP, RP, LP,
         S("defalias"), LP, S("quote"), S("setx"), RP, LP, S("function"), LP,
         S("lambda"), LP, S("y"), RP, LP, S("setq"), S("x"), S("y"), RP, RP, RP, RP,
         RP, LP, S("setx"), I(5), RP, RP>>,
       \* a closure installed by defalias assigns its argument
       \*   (progn (let ((x 3)) (defalias 'sety #'(lambda (y) (setq y x)))) (sety 5))
       <<LP, S("progn"), LP, S("let"), LP, LP, S("x"), I(3), RP, RP, LP,
         S("defalias"), LP, S("quote"), S("sety"), RP, LP, S("function"), LP,
         S("lambda"), LP, S("y"), RP, LP, S("setq"), S("y"), S("x"), RP, RP, RP, RP,
         RP, LP, S("sety"), I(5), RP, RP>>
    >>

\* check_interpreter is called with the text of MoreForms[i].
StartMoreForm(i) ==
    /\ ctl.t = "idle"
    /\ Len(reader.toks) = 0
    /\ steps < MaxForms
    /\ reader' = [toks |-> MoreForms[i], st |-> <<>>]
    /\ last' = [op |-> "start", prog |-> i]
    /\ steps' = steps + 1
    /\ UNCHANGED <<heap, symMap, envVars, roots, ctl, stack, log, shadow, lock, tpc,
                   tname, tres, locals, frames>>

NextMoreForms ==
    \/ \E i \in 1..Len(MoreForms) : StartMoreForm(i)
    \/ ReadStep
    \/ EvalStep
    \/ Finish

SpecMoreForms == Init /\ [][NextMoreForms]_vars

\* The members of a set of numbers in increasing order.
Sorted(s) ==
    [n \in 1..Cardinality(s) |-> CHOOSE i \in s : Cardinality({j \in s : j <= i}) = n]

\* The record of the result of the eval_form that record i of the trace
\* entered (0: it has not returned).
RetOf(tr, i) ==
    LET s == {j \in DOMAIN tr : j > i /\ tr[j].t = "ret" /\ tr[j].d = tr[i].d}
    IN  IF s = {} THEN 0 ELSE CHOOSE j \in s : \A k \in s : j <= k

\* The records of the eval_form calls made n functions below the eval_form
\* of record i, in order.
EvalsBelow(tr, i, n) ==
    LET e == IF RetOf(tr, i) = 0 THEN Len(tr) ELSE RetOf(tr, i)
    IN  Sorted({j \in DOMAIN tr : /\ j > i /\ j <= e
                                  /\ tr[j].t = "eval" /\ tr[j].d = tr[i].d + n})
Kids(tr, i) == EvalsBelow(tr, i, 1)

\* Record i is eval_form entered with a list whose first element is `head`.
IsForm(tr, i, head) ==
    /\ tr[i].t = "eval" /\ tr[i].tree.c /\ tr[i].tree.tl = "nil"
    /\ ~tr[i].tree.l[1].c /\ tr[i].tree.l[1].x = head
Operands(tr, i) == Tail(tr[i].tree.l)
HasReturned(tr, i) == RetOf(tr, i) # 0
Result(tr, i) == tr[RetOf(tr, i)]
IsNilResult(tr, i) == Result(tr, i).ok /\ Result(tr, i).x = "nil"

\* A handler of condition-case whose condition is error or a list of error
\* and debug.
Handles(h) ==
    /\ h.c
    /\ \/ ~h.l[1].c /\ h.l[1].x = "error"
       \/ /\ h.l[1].c /\ h.l[1].tl = "nil"
          /\ \A n \in DOMAIN h.l[1].l : ~h.l[1].l[n].c /\ h.l[1].l[n].x \in {"error", "debug"}

\* C12: condition-case returns the value of its body form when that signals
\* nothing; when it signals and the first handler that is not nil is for
\* error or for a list of error and debug, it returns the value of the last
\* form of the handler's body (nil when the handler's cdr is not a list);
\* with no handler, or nil handlers only, the error of the body is returned.
C12_ConditionCase ==
    \A i \in DOMAIN log.trace :
        LET tr == log.trace
            body == Kids(tr, i)[1]
            r == Result(tr, i)
            hs == Tail(Tail(Operands(tr, i)))
            nonnil == {n \in DOMAIN hs : hs[n].c \/ hs[n].x # "nil"}
            h == hs[CHOOSE n \in nonnil : \A k \in nonnil : n <= k]
            forms == EvalsBelow(tr, i, 2)
            after == SelectSeq(forms, LAMBDA j : j > RetOf(tr, body))
        IN  IsForm(tr, i, "condition-case") /\ Len(Operands(tr, i)) >= 2 /\ HasReturned(tr, i) =>
                IF Result(tr, body).ok
                THEN r.ok /\ r.x = Result(tr, body).x
                ELSE IF nonnil = {}
                THEN ~r.ok /\ r.x = Result(tr, body).x
                ELSE Handles(h) =>
                        IF h.tl # "nil" \/ Len(h.l) = 1
                        THEN r.ok /\ r.x = "nil" /\ Len(after) = 0
                        ELSE (\A n \in DOMAIN after : Result(tr, after[n]).ok) =>
                                /\ Len(after) = Len(h.l) - 1
                                /\ tr[after[Len(after)]].tree = h.l[Len(h.l)]
                                /\ r.ok /\ r.x = Result(tr, after[Len(after)]).x

\* A condition-case whose body signalled has returned the value of the last
\* of the three forms of its handler.
C12_HandlerRan ==
    \E i \in DOMAIN log.trace :
        /\ IsForm(log.trace, i, "condition-case") /\ HasReturned(log.trace, i)
        /\ ~Result(log.trace, Kids(log.trace, i)[1]).ok
        /\ Len(log.trace[i].tree.l) = 4 /\ Len(log.trace[i].tree.l[4].l) = 4
        /\ Result(log.trace, i).ok /\ Result(log.trace, i).x = "11"

\* The record of the eval_form that was entered with the call of record e
\* of the calls.
CallForm(tr, e) ==
    LET s == {i \in 1..e.at : tr[i].t = "eval" /\ tr[i].d = e.d - 1}
    IN  CHOOSE i \in s : \A j \in s : j <= i

\* The trees of the records idx are the first of the trees `forms`, in
\* order.
FirstOf(tr, idx, forms) ==
    /\ Len(idx) <= Len(forms)
    /\ \A n \in DOMAIN idx : tr[idx[n]].tree = forms[n]

\* C13: at a call of a function that is not a macro, each argument form is
\* evaluated once, from left to right, and the function is invoked after the
\* last with the values in that order; when an argument form returns an
\* error, no later argument form is evaluated and the function is not
\* invoked.
C13_ArgumentsInOrder ==
    \A c \in DOMAIN log.calls :
        LET tr == log.trace
            e == log.calls[c]
            i == CallForm(tr, e)
            kids == Kids(tr, i)
            ops == Operands(tr, i)
            invoked == {j \in DOMAIN tr : /\ j > i /\ tr[j].t = "call" /\ tr[j].d = e.d
                                          /\ (HasReturned(tr, i) => j < RetOf(tr, i))}
        IN  /\ FirstOf(tr, kids, ops)
            /\ e.evald = [n \in 1..Len(e.evald) |-> e.forms[n]]
            /\ IF e.ok
               THEN /\ Len(kids) = Len(ops)
                    /\ \A n \in DOMAIN kids : kids[n] < e.at /\ Result(tr, kids[n]).ok
                    /\ Len(tr) > e.at =>
                            /\ invoked = {e.at + 1}
                            /\ tr[e.at + 1].args =
                                    [n \in DOMAIN kids |-> Result(tr, kids[n]).x]
               ELSE /\ Len(kids) >= 1
                    /\ \A n \in DOMAIN kids : Result(tr, kids[n]).ok <=> n < Len(kids)
                    /\ invoked = {}

\* A call whose second argument form returned an error and whose third was
\* left alone.
C13_ArgumentFailed ==
    \E c \in DOMAIN log.calls :
        /\ ~log.calls[c].ok
        /\ Len(log.calls[c].forms) = 3 /\ Len(log.calls[c].evald) = 2
        /\ HasReturned(log.trace, CallForm(log.trace, log.calls[c]))

\* The values of the records before the last of idx are all nil
\* (isNil) or all not nil.
AllBefore(tr, idx, k, isNil) ==
    \A n \in 1..(k - 1) :
        /\ HasReturned(tr, idx[n]) /\ Result(tr, idx[n]).ok
        /\ IsNilResult(tr, idx[n]) <=> isNil

IfOrder(tr, kids, ops) ==
    /\ Len(kids) >= 1 => tr[kids[1]].tree = ops[1]
    /\ Len(kids) >= 2 =>
            /\ AllBefore(tr, kids, 2, IsNilResult(tr, kids[1]))
            /\ IF IsNilResult(tr, kids[1])
               THEN FirstOf(tr, Tail(kids), Tail(Tail(ops)))
               ELSE Len(kids) = 2 /\ tr[kids[2]].tree = ops[2]

CondOrder(tr, kids, ops) ==
    \/ Len(kids) = 0
    \/ \E k \in 1..Len(ops) : \E b \in 0..(Len(ops[k].l) - 1) :
            /\ Len(kids) = k + b
            /\ \A n \in 1..k : tr[kids[n]].tree = ops[n].l[1]
            /\ AllBefore(tr, kids, k, TRUE)
            /\ b > 0 => AllBefore(tr, <<kids[k]>>, 2, FALSE)
            /\ \A n \in 1..b : tr[kids[k + n]].tree = ops[k].l[n + 1]

\* C14: the operands a conditional form drops are not evaluated: and
\* evaluates nothing after the first operand that is nil, or nothing after
\* the first that is not nil, if either its then-form or its else-forms, and
\* cond no predicate or body after the first clause whose predicate is not
\* nil.
C14_DroppedOperands ==
    \A i \in DOMAIN log.trace :
        LET tr == log.trace
            kids == Kids(tr, i)
            ops == Operands(tr, i)
        IN  /\ IsForm(tr, i, "and") =>
                    FirstOf(tr, kids, ops) /\ AllBefore(tr, kids, Len(kids), FALSE)
            /\ IsForm(tr, i, "or") =>
                    FirstOf(tr, kids, ops) /\ AllBefore(tr, kids, Len(kids), TRUE)
            /\ IsForm(tr, i, "if") => IfOrder(tr, kids, ops)
            /\ IsForm(tr, i, "cond") => CondOrder(tr, kids, ops)

\* An and, an or, an if or a cond has returned without evaluating its last
\* operand.
C14_OperandDropped ==
    \E i \in DOMAIN log.trace :
        /\ \E head \in {"and", "or", "if", "cond"} : IsForm(log.trace, i, head)
        /\ HasReturned(log.trace, i)
        /\ Len(Operands(log.trace, i)) = 3
        /\ Len(Kids(log.trace, i)) = 2

\* C15: defvar gives the symbol the value only when the symbol has none and
\* leaves a value it has unchanged; defconst assigns in either case; both
\* return the value (nil without a value form) and fail with an argument
\* error without arguments.
C15_DefvarKeepsValue ==
    \A i \in DOMAIN log.trace :
        LET tr == log.trace
            ops == Operands(tr, i)
            name == ops[1].x
            r == Result(tr, i)
            kids == Kids(tr, i)
            value == IF Len(ops) >= 2 THEN Result(tr, kids[1]).x ELSE "nil"
            keeps == IsForm(tr, i, "defvar") /\ name \in DOMAIN tr[i].ev
        IN  /\ IsForm(tr, i, "defvar") \/ IsForm(tr, i, "defconst")
            /\ HasReturned(tr, i)
            /\ tr[i].lex = <<>>
            => IF Len(ops) = 0 THEN ~r.ok /\ r.x = ArgError(tr[i].tree.l[1].x).e
               ELSE (Len(ops) >= 2 => Result(tr, kids[1]).ok) =>
                        /\ r.ok /\ r.x = value
                        /\ name \in DOMAIN r.ev
                        /\ r.ev[name] = IF keeps THEN tr[i].ev[name] ELSE value

\* A defvar of a symbol that had a value has returned.
C15_DefvarAgain ==
    \E i \in DOMAIN log.trace :
        /\ IsForm(log.trace, i, "defvar") /\ HasReturned(log.trace, i)
        /\ Len(Operands(log.trace, i)) = 2
        /\ Operands(log.trace, i)[1].x \in DOMAIN log.trace[i].ev
        /\ Result(log.trace, i).ok

\* The cells of the lexical stack `lex` that bind the name n.
Binds(lex, n) == {k \in DOMAIN lex : lex[k][1] = n}
Newest(s) == CHOOSE k \in s : \A j \in s : j <= k

\* C16: a symbol whose name begins with a colon evaluates to itself; any
\* other symbol to the value of its newest lexical binding, else to its
\* value in env.vars, else to a void-variable error.
C16_VarRefOrder ==
    \A i \in DOMAIN log.trace :
        LET tr == log.trace
            n == tr[i].tree.x
            r == Result(tr, i)
            hits == Binds(tr[i].lex, n)
        IN  tr[i].t = "eval" /\ tr[i].kind = "sym" /\ HasReturned(tr, i) =>
                IF n \in KeywordNames THEN r.ok /\ r.x = n
                ELSE IF hits # {} THEN r.ok /\ r.x = tr[i].lex[Newest(hits)][2]
                ELSE IF n \in DOMAIN tr[i].ev THEN r.ok /\ r.x = tr[i].ev[n]
                ELSE ~r.ok /\ r.x = "Void variable: " \o n

\* A symbol with a lexical binding and another value in env.vars has been
\* evaluated.
C16_BothBound ==
    \E i \in DOMAIN log.trace :
        LET tr == log.trace
            n == tr[i].tree.x
            hits == Binds(tr[i].lex, n)
        IN  /\ tr[i].t = "eval" /\ tr[i].kind = "sym" /\ HasReturned(tr, i)
            /\ hits # {} /\ n \in DOMAIN tr[i].ev
            /\ tr[i].ev[n] # tr[i].lex[Newest(hits)][2]

\* The names the binding list `bindings` of a let binds, in order.
BoundNames(bindings) ==
    [n \in DOMAIN bindings.l |->
        IF bindings.l[n].c THEN bindings.l[n].l[1].x ELSE bindings.l[n].x]
Names(lex) == [k \in DOMAIN lex |-> lex[k][1]]

\* The records of the eval_form calls for the body forms of the let of
\* record i: those two functions below that come after the init forms.
BodyEvals(tr, i) ==
    LET inits == Kids(tr, i)
        from == IF Len(inits) = 0 THEN i ELSE RetOf(tr, inits[Len(inits)])
    IN  SelectSeq(EvalsBelow(tr, i, 2), LAMBDA j : from # 0 /\ j > from)

\* C17: a let of symbols that have no value in env.vars binds them on the
\* lexical stack, newest last, for its body only: the body sees the
\* bindings after those it was entered with and none of them in env.vars,
\* and when the let has returned the lexical stack is the one it was
\* entered with and the symbols still have no value in env.vars.
C17_LetLexicalScope ==
    \A i \in DOMAIN log.trace :
        LET tr == log.trace
            names == BoundNames(Operands(tr, i)[1])
            body == BodyEvals(tr, i)
            r == Result(tr, i)
        IN  /\ IsForm(tr, i, "let") \/ IsForm(tr, i, "let*")
            /\ Len(Operands(tr, i)) >= 1
            /\ \A n \in DOMAIN names : names[n] \notin DOMAIN tr[i].ev
            /\ HasReturned(tr, i) /\ r.ok
            => /\ \A b \in DOMAIN body :
                    /\ Names(tr[body[b]].lex) = Names(tr[i].lex) \o names
                    /\ \A n \in DOMAIN names : names[n] \notin DOMAIN tr[body[b]].ev
               /\ \E k \in DOMAIN log.lets :
                    /\ log.lets[k].at + 1 = RetOf(tr, i)
                    /\ log.lets[k].ok /\ log.lets[k].lex1 = log.lets[k].lex0
               /\ \A n \in DOMAIN names : names[n] \notin DOMAIN r.ev

\* A let inside the body of a let of the same symbol has returned.
C17_InnerLetReturned ==
    \E i \in DOMAIN log.trace :
        LET tr == log.trace
            names == BoundNames(Operands(tr, i)[1])
        IN  /\ IsForm(tr, i, "let") /\ HasReturned(tr, i) /\ Result(tr, i).ok
            /\ Len(Operands(tr, i)) = 2 /\ Len(names) = 1
            /\ Binds(tr[i].lex, names[1]) # {}
            /\ Len(BodyEvals(tr, i)) = 1

\* Record j is the entry of the native function `name`.
IsNative(tr, j, name) == tr[j].t = "call" /\ tr[j].x = "#<subr " \o name \o ">"

\* Record j is the entry of the function whose arguments record `by` has
\* first, with the argument vector `args`.
Invokes(tr, j, by, args) ==
    /\ tr[j].t = "call" /\ tr[j].d > tr[by].d
    /\ tr[j].x = tr[by].args[1]
    /\ tr[j].tree.l = args

\* The vector funcall passes on, and the vector apply passes on.
FuncallVector(a) == a
ApplyVector(a) ==
    IF Len(a) = 0 THEN <<>> ELSE FuncallVector(SubSeq(a, 1, Len(a) - 1) \o a[Len(a)].l)
ProperList(t) == IF t.c THEN t.tl = "nil" ELSE t.x = "nil"

\* C18: apply with a function f, arguments a1..an and a list L calls f with
\* the vector funcall passes for a1..an followed by the elements of L, and
\* with the empty vector when nothing follows f; when L is not a proper list
\* apply returns an error and f is not called.
C18_ApplySpreads ==
    \A j \in DOMAIN log.trace :
        LET tr == log.trace
            a == Tail(tr[j].tree.l)
        IN  /\ IsNative(tr, j, "funcall") /\ Len(tr) > j /\ Len(tr[j].args) >= 1
                => Invokes(tr, j + 1, j, FuncallVector(a))
            /\ IsNative(tr, j, "apply") /\ Len(tr) > j /\ Len(tr[j].args) >= 1
                => IF Len(a) = 0 \/ ProperList(a[Len(a)])
                   THEN Invokes(tr, j + 1, j, ApplyVector(a))
                   ELSE tr[j + 1].t = "ret" /\ ~tr[j + 1].ok

\* apply has called a function with two arguments and a list of two
\* elements.
C18_Spread ==
    \E j \in DOMAIN log.trace :
        /\ IsNative(log.trace, j, "apply") /\ Len(log.trace) > j
        /\ Len(log.trace[j].args) = 4 /\ Len(log.trace[j + 1].args) = 4
        /\ log.trace[j + 1].t = "call"

\* The form of tree t is a list whose first element names a macro.
IsMacroCall(t) ==
    /\ t.c /\ ~t.l[1].c /\ t.l[1].x \in DOMAIN symMap
    /\ TryAsMacro(heap, FollowIndirect(heap, SymV(symMap[t.l[1].x]), MaxHops)) # Nil

\* The records between record j and the result of its function that are
\* entries of eval_form, or entries of Function::call no deeper than the
\* first of them.
Entered(tr, j) ==
    {i \in DOMAIN tr : /\ i > j /\ (HasReturned(tr, j) => i < RetOf(tr, j))
                        /\ \/ tr[i].t = "eval" /\ tr[i].d <= tr[j + 1].d
                           \/ tr[i].t = "call" /\ tr[i].d <= tr[j + 1].d}

\* C19: macroexpand returns its form as it is, calling nothing, unless the
\* form is a cons whose car is a symbol that names a macro; then it calls
\* the macro once with the elements of the form's cdr as they are and
\* returns what the macro returns, neither expanded again nor evaluated.  An
\* environment that is not nil ends in the panic of unimplemented!.
C19_MacroexpandOnce ==
    \A j \in DOMAIN log.trace :
        LET tr == log.trace
            a == tr[j].tree.l
        IN  IsNative(tr, j, "macroexpand") /\ Len(a) \in {1, 2} =>
                IF Len(a) = 2 /\ (a[2].c \/ a[2].x # "nil")
                THEN /\ Len(tr) = j
                     /\ \/ ctl.t = "ret" /\ ctl.r.panic
                        \/ ctl.t = "idle" /\ last.op = "eval" /\ last.panic
                ELSE Len(tr) > j =>
                        IF IsMacroCall(a[1])
                        THEN /\ tr[j + 1].t = "call" /\ tr[j + 1].tree.l = Tail(a[1].l)
                             /\ Entered(tr, j) = {j + 1}
                             /\ HasReturned(tr, j) =>
                                    /\ Result(tr, j).ok = Result(tr, j + 1).ok
                                    /\ Result(tr, j).x = Result(tr, j + 1).x
                        ELSE /\ tr[j + 1].t = "ret" /\ tr[j + 1].ok
                             /\ tr[j + 1].tree = a[1]

\* macroexpand has returned what the macro made of a form: another call of
\* the macro.
C19_Expanded ==
    \E j \in DOMAIN log.trace :
        /\ IsNative(log.trace, j, "macroexpand") /\ HasReturned(log.trace, j)
        /\ IsMacroCall(log.trace[j].tree.l[1])
        /\ Result(log.trace, j).ok /\ IsMacroCall(Result(log.trace, j).tree)

\* C22: while evaluates its condition once before each iteration and once
\* more for the test that fails, and in an iteration only the forms after
\* the condition, each once and in order: a while whose body ran k times
\* has evaluated its condition k + 1 times, and it returns nil.
C22_WhileEvaluates ==
    \A i \in DOMAIN log.trace :
        LET tr == log.trace
            ops == Operands(tr, i)
            tests == EvalsBelow(tr, i, 1)
            body == EvalsBelow(tr, i, 2)
            nbody == Len(ops) - 1
        IN  (IsForm(tr, i, "while") /\ Len(ops) >= 1
                /\ HasReturned(tr, i) /\ Result(tr, i).ok) =>
                /\ Result(tr, i).x = "nil"
                /\ \A n \in DOMAIN tests : tr[tests[n]].tree = ops[1]
                /\ \A n \in DOMAIN tests : IsNilResult(tr, tests[n]) <=> n = Len(tests)
                /\ Len(body) = (Len(tests) - 1) * nbody
                /\ \A n \in DOMAIN body : tr[body[n]].tree = ops[2 + ((n - 1) % nbody)]

\* A while has returned after two iterations of a body of one form.
C22_TwoIterations ==
    \E i \in DOMAIN log.trace :
        /\ IsForm(log.trace, i, "while") /\ Len(Operands(log.trace, i)) = 2
        /\ HasReturned(log.trace, i) /\ Result(log.trace, i).ok
        /\ Len(EvalsBelow(log.trace, i, 1)) = 3

\* C23: catch evaluates its tag form before the first of its body forms, so
\* that an error of the tag form is the result of the catch, and returns
\* the value of the last body form; a catch without a tag form is an
\* argument error.
C23_CatchEvaluatesTag ==
    \A i \in DOMAIN log.trace :
        LET tr == log.trace
            ops == Operands(tr, i)
            kids == Kids(tr, i)
        IN  IsForm(tr, i, "catch") /\ HasReturned(tr, i) =>
                IF Len(ops) = 0
                THEN ~Result(tr, i).ok /\ Len(kids) = 0
                ELSE /\ Len(kids) >= 1
                     /\ FirstOf(tr, kids, ops)
                     /\ IF Result(tr, i).ok
                        THEN /\ Len(kids) = Len(ops)
                             /\ Result(tr, i).x =
                                   (IF Len(ops) = 1 THEN "nil"
                                    ELSE Result(tr, kids[Len(kids)]).x)
                        ELSE /\ ~Result(tr, kids[Len(kids)]).ok
                             /\ Result(tr, i).x = Result(tr, kids[Len(kids)]).x

\* A catch with a tag form and a body form has returned.
C23_CatchReturned ==
    \E i \in DOMAIN log.trace :
        /\ IsForm(log.trace, i, "catch") /\ Len(Operands(log.trace, i)) = 2
        /\ HasReturned(log.trace, i) /\ Result(log.trace, i).ok

\* C24: every call of eval_form, those for sub-forms included, collects
\* garbage as it is entered (a collection falls between the step recorded
\* before the call and the step recorded after its entry), and so does
\* every entry into call_closure, before anything else is recorded.
C24_CollectsAtEveryEval ==
    \A i \in DOMAIN log.trace :
        /\ log.trace[i].t = "eval" =>
                \E g \in DOMAIN log.gcs : log.gcs[g].tr \in {i - 1, i}
        /\ log.trace[i].t = "call" /\ log.trace[i].kind = "cons" =>
                \E g \in DOMAIN log.gcs : log.gcs[g].tr = i

\* The form of an argument has been evaluated inside a closure that was
\* called, and has returned.
C24_SubformEvaluated ==
    \E j, i \in DOMAIN log.trace :
        /\ log.trace[j].t = "call" /\ log.trace[j].kind = "cons"
        /\ i > j + 1 /\ log.trace[i].t = "eval" /\ log.trace[i].d > log.trace[j].d
        /\ HasReturned(log.trace, i)

\* A list whose first element is the symbol closure, with an environment
\* after it.
IsClosure(f) == f.c /\ Len(f.l) >= 2 /\ ~f.l[1].c /\ f.l[1].x = "closure"

\* The place of the first t among the members of an environment (0:
\* there is none).
FirstTrue(members) ==
    LET ts == {n \in DOMAIN members : ~members[n].c /\ members[n].x = "t"}
    IN  IF ts = {} THEN 0 ELSE CHOOSE n \in ts : \A k \in ts : n <= k

\* C26: a closure is called with the cells of its environment list before
\* the first t, in the order of the list, as the head of its lexical stack;
\* when the environment list has no t, or has before the t a member that
\* is neither a cons nor t, the call fails before an argument is bound or a
\* form of the body evaluated.
C26_ClosureEnv ==
    \A by \in DOMAIN log.trace :
        LET tr == log.trace
            f == tr[by].tree.l[1]
            j == by + 1
            members == f.l[2].l
            tpos == FirstTrue(members)
            upto == IF tpos = 0 THEN Len(members) ELSE tpos - 1
            fails == tpos = 0 \/ \E n \in 1..upto : ~members[n].c
        IN  (/\ IsNative(tr, by, "funcall") /\ Len(tr[by].tree.l) >= 1 /\ IsClosure(f)
             /\ f.l[2].tl = "nil" /\ Len(tr) > j) =>
                /\ tr[j].t = "call" /\ tr[j].kind = "cons"
                /\ IF fails
                   THEN tr[j + 1].t = "ret" /\ ~tr[j + 1].ok
                   ELSE tr[j + 1].t = "eval" =>
                            /\ Len(tr[j + 1].lex) >= upto
                            /\ \A n \in 1..upto :
                                  Len(members[n].l) = 1 /\ ~members[n].l[1].c =>
                                      tr[j + 1].lex[n] = <<members[n].l[1].x, members[n].tl>>

\* The body of a closure with two cells before the t of its environment
\* and one formal has been entered.
C26_EnvParsed ==
    \E by \in DOMAIN log.trace :
        /\ IsNative(log.trace, by, "funcall") /\ Len(log.trace[by].tree.l) >= 1
        /\ IsClosure(log.trace[by].tree.l[1])
        /\ FirstTrue(log.trace[by].tree.l[1].l[2].l) = 3
        /\ Len(log.trace) >= by + 2 /\ log.trace[by + 2].t = "eval"
        /\ Len(log.trace[by + 2].lex) = 3

\* Every binding of the list is (symbol init).
PlainBindings(bs) ==
    \A n \in DOMAIN bs : bs[n].c /\ Len(bs[n].l) = 2 /\ bs[n].tl = "nil" /\ ~bs[n].l[1].c

\* The first n of the names that have no value in env.vars.
LexicalNames(names, ev, n) ==
    SelectSeq(SubSeq(names, 1, n), LAMBDA x : x \notin DOMAIN ev)

\* C27: let and let* evaluate the init forms from left to right.  In a let
\* every init form is evaluated with the lexical stack and the values of
\* the let's special variables as they were when the let was entered; in a
\* let* the n-th init form is evaluated with the first n - 1 bindings
\* installed, each with the value of its init form.
C27_LetInits ==
    \A i \in DOMAIN log.trace :
        LET tr == log.trace
            bs == Operands(tr, i)[1].l
            names == BoundNames(Operands(tr, i)[1])
            inits == Kids(tr, i)
            lexical(j) == names[j] \notin DOMAIN tr[i].ev
        IN  (/\ IsForm(tr, i, "let") \/ IsForm(tr, i, "let*")
             /\ Len(Operands(tr, i)) >= 1 /\ PlainBindings(bs)) =>
                /\ FirstOf(tr, inits, [n \in DOMAIN bs |-> bs[n].l[2]])
                /\ \A n \in DOMAIN inits :
                      LET at == tr[inits[n]]
                      IN  IF IsForm(tr, i, "let")
                          THEN /\ at.lex = tr[i].lex
                               /\ \A j \in DOMAIN names :
                                     ~lexical(j) => at.ev[names[j]] = tr[i].ev[names[j]]
                          ELSE /\ Names(at.lex) =
                                     Names(tr[i].lex) \o LexicalNames(names, tr[i].ev, n - 1)
                               /\ \A j \in 1..(n - 1) :
                                     (\A k \in (j + 1)..(n - 1) : names[k] # names[j]) =>
                                        IF lexical(j)
                                        THEN at.lex[Newest(Binds(at.lex, names[j]))][2] =
                                                Result(tr, inits[j]).x
                                        ELSE at.ev[names[j]] = Result(tr, inits[j]).x

\* A let has returned whose second init form is the symbol its first
\* binding binds.
C27_InitReadsBound ==
    \E i \in DOMAIN log.trace :
        LET tr == log.trace
            names == BoundNames(Operands(tr, i)[1])
            inits == Kids(tr, i)
        IN  /\ IsForm(tr, i, "let") /\ Len(Operands(tr, i)) >= 1
            /\ HasReturned(tr, i) /\ Result(tr, i).ok
            /\ Len(inits) = 2 /\ Len(names) = 2
            /\ ~tr[inits[2]].tree.c /\ tr[inits[2]].tree.x = names[1]

\* The cells before the t of the environment of closure f, and the cells
\* that bind its formals to the values `args`.
EnvCells(f) ==
    [n \in 1..(FirstTrue(f.l[2].l) - 1) |-> <<f.l[2].l[n].l[1].x, f.l[2].l[n].tl>>]
ArgCells(f, args) == [n \in DOMAIN f.l[3].l |-> <<f.l[3].l[n].x, args[n]>>]

\* A closure whose environment is cells of a symbol and an atom closed by
\* t, and whose formals are as many plain symbols as there are values.
SimpleClosure(f, args) ==
    /\ IsClosure(f) /\ Len(f.l) >= 3
    /\ FirstTrue(f.l[2].l) > 0
    /\ \A n \in 1..(FirstTrue(f.l[2].l) - 1) :
          f.l[2].l[n].c /\ Len(f.l[2].l[n].l) = 1 /\ ~f.l[2].l[n].l[1].c
    /\ Len(f.l[3].l) = Len(args)
    /\ \A n \in DOMAIN f.l[3].l :
          ~f.l[3].l[n].c /\ f.l[3].l[n].x \notin {"&optional", "&rest"}

\* The record of the eval_form whose form called the function of record by.
Caller(tr, by) ==
    LET s == {i \in 1..by : tr[i].t = "eval" /\ tr[i].d < tr[by].d}
    IN  CHOOSE i \in s : \A k \in s : k <= i

\* C28: the body of a closure is evaluated with a lexical stack of the
\* cells of the captured environment followed by the bindings of the
\* arguments, so without the lexical bindings of the caller; with the
\* values of the special variables as they are at the call, those a let
\* around the call rebound included; and the form evaluated next after the
\* call sees the caller's lexical stack as it was.
C28_ClosureScope ==
    \A by \in DOMAIN log.trace :
        LET tr == log.trace
            f == tr[by].tree.l[1]
            j == by + 1
            c == Caller(tr, by)
            lets == {i \in 1..by : /\ IsForm(tr, i, "let") \/ IsForm(tr, i, "let*")
                                   /\ Len(Operands(tr, i)) >= 1
                                   /\ PlainBindings(Operands(tr, i)[1].l)
                                   /\ Len(BodyEvals(tr, i)) > 0
                                   /\ BodyEvals(tr, i)[1] <= by
                                   /\ (HasReturned(tr, i) => RetOf(tr, i) > by)}
        IN  (/\ IsNative(tr, by, "funcall") /\ Len(tr[by].args) >= 1
             /\ SimpleClosure(f, Tail(tr[by].args))
             /\ Len(tr) > j /\ tr[j + 1].t = "eval") =>
                /\ tr[j + 1].lex = EnvCells(f) \o ArgCells(f, Tail(tr[by].args))
                /\ tr[j + 1].ev = tr[by].ev
                /\ \A i \in lets : \A n \in DOMAIN Kids(tr, i) :
                      LET name == BoundNames(Operands(tr, i)[1])[n]
                      IN  (/\ name \in DOMAIN tr[i].ev
                           /\ \A k \in DOMAIN Kids(tr, i) :
                                 BoundNames(Operands(tr, i)[1])[k] = name => k = n
                           /\ \A i2 \in lets : i2 <= i) =>
                              tr[j + 1].ev[name] = Result(tr, Kids(tr, i)[n]).x
                /\ HasReturned(tr, c) =>
                      LET k == RetOf(tr, c) + 1
                      IN  (k <= Len(tr) /\ tr[k].t = "eval" /\ tr[k].d = tr[c].d) =>
                              tr[k].lex = tr[c].lex

\* A closure called inside a let that binds a variable lexically has
\* returned and the next form of the let was entered.
C28_CalledUnderLet ==
    \E by \in DOMAIN log.trace :
        LET tr == log.trace
            c == Caller(tr, by)
        IN  /\ IsNative(tr, by, "funcall") /\ Len(tr[by].args) >= 1
            /\ SimpleClosure(tr[by].tree.l[1], Tail(tr[by].args))
            /\ Len(tr[c].lex) > 0
            /\ Len(tr) > by + 1 /\ tr[by + 2].t = "eval"
            /\ Len(tr[by + 2].lex) = 1 /\ tr[by + 2].lex[1][1] # tr[c].lex[1][1]
            /\ HasReturned(tr, c)
            /\ RetOf(tr, c) < Len(tr) /\ tr[RetOf(tr, c) + 1].t = "eval"

\* A closure has been called inside a let that rebound a special variable.
C28_CalledUnderRebinding ==
    \E by \in DOMAIN log.trace :
        LET tr == log.trace
        IN  /\ IsNative(tr, by, "funcall") /\ Len(tr[by].args) >= 1
            /\ SimpleClosure(tr[by].tree.l[1], Tail(tr[by].args))
            /\ Len(tr) > by + 1 /\ tr[by + 2].t = "eval"
            /\ "foo" \in DOMAIN tr[by + 2].ev /\ tr[by + 2].ev["foo"] = "5"

\* A tree that is not a symbol: a list, nil, t or an integer.
NonSymbol(t) == t.c \/ t.x \in {"nil", "t"} \/ \E n \in 0..99 : t.x = ToString(n)

\* Record `at` shows the first n pairs of the setq of record i assigned:
\* every variable has the value of its last value form among them, in its
\* newest lexical binding if the setq was entered with one and in env.vars
\* otherwise, and the lexical stack has the bindings it had.
Assigned(tr, i, n, at) ==
    LET ops == Operands(tr, i)
        kids == Kids(tr, i)
    IN  /\ Names(at.lex) = Names(tr[i].lex)
        /\ \A p \in 1..n :
              (\A q \in (p + 1)..n : ops[2 * q - 1].x # ops[2 * p - 1].x) =>
                  LET v == ops[2 * p - 1].x
                      val == Result(tr, kids[p]).x
                      hits == Binds(tr[i].lex, v)
                  IN  IF hits # {}
                      THEN /\ at.lex[Newest(hits)][2] = val
                           /\ v \in DOMAIN tr[i].ev =>
                                 v \in DOMAIN at.ev /\ at.ev[v] = tr[i].ev[v]
                      ELSE v \in DOMAIN at.ev /\ at.ev[v] = val

\* C29: setq takes its arguments in pairs from left to right, evaluates the
\* value form of each pair and assigns the value to the newest lexical
\* binding of the variable if there is one, else to its value in env.vars;
\* it returns the value assigned last.  Without arguments, or with a
\* variable without a value form, it returns an argument error; with a
\* variable that is not a symbol, a type error.
C29_Setq ==
    \A i \in DOMAIN log.trace :
        LET tr == log.trace
            ops == Operands(tr, i)
            kids == Kids(tr, i)
            np == Len(ops) \div 2
            bad == {p \in 1..np : NonSymbol(ops[2 * p - 1])}
            stop == IF bad = {} THEN np ELSE (CHOOSE p \in bad : \A q \in bad : p <= q) - 1
            r == Result(tr, i)
        IN  IsForm(tr, i, "setq") =>
                /\ FirstOf(tr, kids, [p \in 1..stop |-> ops[2 * p]])
                /\ \A n \in 2..Len(kids) : Assigned(tr, i, n - 1, tr[kids[n]])
                /\ (HasReturned(tr, i) /\ \A n \in DOMAIN kids : Result(tr, kids[n]).ok) =>
                      /\ Len(kids) = stop
                      /\ Assigned(tr, i, stop, r)
                      /\ IF bad # {} THEN ~r.ok /\ r.x = TypeError("symbol").e
                         ELSE IF Len(ops) = 0 \/ Len(ops) % 2 = 1
                         THEN ~r.ok /\ r.x = ArgError("setq").e
                         ELSE r.ok /\ r.x = Result(tr, kids[np]).x

\* A setq of two pairs has returned that was entered with a lexical binding
\* of its first variable and none of its second.
C29_TwoPairs ==
    \E i \in DOMAIN log.trace :
        LET tr == log.trace
            ops == Operands(tr, i)
        IN  /\ IsForm(tr, i, "setq") /\ Len(ops) = 4
            /\ HasReturned(tr, i) /\ Result(tr, i).ok
            /\ Binds(tr[i].lex, ops[1].x) # {} /\ Binds(tr[i].lex, ops[3].x) = {}
            /\ Result(tr, i).lex[Newest(Binds(tr[i].lex, ops[1].x))][2] = "2"

\* The first of the records idx whose value is not nil (0: there is none).
FirstNonNil(tr, idx) ==
    LET s == {n \in DOMAIN idx : ~IsNilResult(tr, idx[n])}
    IN  IF s = {} THEN 0 ELSE CHOOSE n \in s : \A k \in s : n <= k

\* C30: and returns nil when one of its forms yields nil, else the value of
\* its last form, and t without forms; or returns the first value that is
\* not nil, else nil; cond returns, for the first clause whose predicate is
\* not nil, the value of the last body form or, without a body, the value
\* of the predicate, and nil when no predicate holds.
C30_ConditionalValues ==
    \A i \in DOMAIN log.trace :
        LET tr == log.trace
            ops == Operands(tr, i)
            kids == Kids(tr, i)
            r == Result(tr, i)
            final == kids[Len(kids)]
            f == FirstNonNil(tr, kids)
        IN  (/\ HasReturned(tr, i)
             /\ \A n \in DOMAIN kids : Result(tr, kids[n]).ok) =>
                /\ IsForm(tr, i, "and") =>
                      /\ r.ok
                      /\ IF \E n \in DOMAIN kids : IsNilResult(tr, kids[n]) THEN r.x = "nil"
                         ELSE IF Len(ops) = 0 THEN r.x = "t"
                         ELSE /\ Len(kids) = Len(ops) /\ tr[final].tree = ops[Len(ops)]
                              /\ r.tree = Result(tr, final).tree
                /\ IsForm(tr, i, "or") =>
                      /\ r.ok
                      /\ IF f = 0 THEN r.x = "nil" /\ Len(kids) = Len(ops)
                         ELSE r.tree = Result(tr, kids[f]).tree
                /\ (IsForm(tr, i, "cond") /\ \A n \in DOMAIN ops : ops[n].c) =>
                      /\ r.ok
                      /\ IF f = 0 THEN r.x = "nil" /\ Len(kids) = Len(ops)
                         ELSE IF Len(ops[f].l) = 1 THEN r.tree = Result(tr, kids[f]).tree
                         ELSE /\ tr[final].tree = ops[f].l[Len(ops[f].l)]
                              /\ r.tree = Result(tr, final).tree

\* A cond has returned the value of the predicate of its second clause,
\* which has no body.
C30_ValueReturned ==
    \E i \in DOMAIN log.trace :
        LET tr == log.trace
        IN  /\ IsForm(tr, i, "cond") /\ HasReturned(tr, i) /\ Result(tr, i).ok
            /\ Len(Kids(tr, i)) = 2 /\ FirstNonNil(tr, Kids(tr, i)) = 2
            /\ Len(Operands(tr, i)[2].l) = 1 /\ Result(tr, i).x = "5"

(***************************************************************************)
(* Properties of the sessions of SpecMoreForms.                            *)
(***************************************************************************)
\* The tree of the environment list of the cells `lex`, closed by t.
IsEnvOf(env, lex) ==
    /\ env.c /\ env.tl = "nil" /\ Len(env.l) = Len(lex) + 1
    /\ ~env.l[Len(lex) + 1].c /\ env.l[Len(lex) + 1].x = "t"
    /\ \A n \in DOMAIN lex :
          /\ env.l[n].c /\ ~env.l[n].l[1].c /\ env.l[n].l[1].x = lex[n][1]
          /\ Len(env.l[n].l) = 1 => env.l[n].tl = lex[n][2]

C32_HandlerBinding ==
    \A k \in DOMAIN log.handlers :
        LET b == log.handlers[k].binding
        IN  /\ b.c /\ Len(b.l) = 2
            /\ ~b.l[2].c /\ b.l[2].x = "error"
            /\ b.tl # "nil"

\* The body of a handler has been evaluated with the variable bound and has
\* returned.
C32_HandlerBodyRan ==
    \E k \in DOMAIN log.handlers :
        /\ log.handlers[k].returned
        /\ log.handlers[k].binding.c /\ log.handlers[k].binding.l[1].x = "err"
        /\ \E i \in DOMAIN log.trace :
              /\ log.trace[i].t = "eval" /\ log.trace[i].lex # <<>>
              /\ log.trace[i].lex[Len(log.trace[i].lex)][1] = "err"

\* A handler of condition-case that is invalid: neither a cons nor nil, or
\* a cons whose condition is a symbol other than error or a list with a
\* symbol other than error and debug in it.
InvalidHandler(h) ==
    IF ~h.c THEN h.x # "nil"
    ELSE IF ~h.l[1].c THEN ~NonSymbol(h.l[1]) /\ h.l[1].x # "error"
    ELSE \E n \in DOMAIN h.l[1].l :
            /\ ~NonSymbol(h.l[1].l[n]) /\ h.l[1].l[n].x \notin {"error", "debug"}
            /\ \A k \in 1..(n - 1) :
                  ~h.l[1].l[k].c /\ h.l[1].l[k].x \in {"error", "debug"}

\* The errors condition-case signals for a handler.
HandlerErrors == {"Invalid condition handler:", "non-error conditions not yet supported"}

\* C33: when the body of a condition-case signals and the first handler
\* that is not nil is invalid, condition-case returns an error for the
\* handler, not the error of the body, having evaluated no form of any
\* handler and with the lexical stack it was entered with, also when a
\* handler for error follows; when the body signals nothing its value is
\* returned whatever the handlers are.
C33_InvalidHandler ==
    \A i \in DOMAIN log.trace :
        LET tr == log.trace
            body == Kids(tr, i)[1]
            r == Result(tr, i)
            hs == Tail(Tail(Operands(tr, i)))
            nonnil == {n \in DOMAIN hs : hs[n].c \/ hs[n].x # "nil"}
            h == hs[CHOOSE n \in nonnil : \A k \in nonnil : n <= k]
            forms == EvalsBelow(tr, i, 2)
            after == SelectSeq(forms, LAMBDA j : j > RetOf(tr, body))
        IN  (IsForm(tr, i, "condition-case") /\ Len(Operands(tr, i)) >= 2 /\ HasReturned(tr, i)) =>
                IF Result(tr, body).ok
                THEN r.ok /\ r.x = Result(tr, body).x /\ Len(after) = 0
                ELSE (nonnil # {} /\ InvalidHandler(h)) =>
                        /\ ~r.ok /\ r.x \in HandlerErrors
                        /\ r.x # Result(tr, body).x
                        /\ Len(after) = 0
                        /\ r.lex = tr[i].lex

\* A condition-case whose body signalled has returned an error for its
\* first handler, 5, and not run the handler for error after it.
C33_HandlerRejected ==
    \E i \in DOMAIN log.trace :
        /\ IsForm(log.trace, i, "condition-case") /\ HasReturned(log.trace, i)
        /\ Len(log.trace[i].tree.l) = 5
        /\ ~log.trace[i].tree.l[4].c /\ log.trace[i].tree.l[4].x = "5"
        /\ log.trace[i].tree.l[5].c /\ log.trace[i].tree.l[5].l[1].x = "error"
        /\ ~Result(log.trace, Kids(log.trace, i)[1]).ok
        /\ ~Result(log.trace, i).ok
        /\ Result(log.trace, i).x = "Invalid condition handler:"

\* C34: when the head of a form names a macro, the macro is called at once,
\* before any eval_form, with the argument forms themselves; when it returns
\* a value, that value is evaluated once, with the lexical stack and the
\* env.vars state of the caller, and no other form is evaluated by the
\* caller; the result of that evaluation is the result of the form.  An
\* error of the macro is the result of the form and nothing is evaluated.
C34_MacroCall ==
    \A i \in DOMAIN log.trace :
        LET tr == log.trace
            c == RetOf(tr, i + 1)
        IN  (/\ tr[i].t = "eval" /\ IsMacroCall(tr[i].tree) /\ tr[i].tree.tl = "nil"
             /\ Len(tr) > i) =>
                /\ tr[i + 1].t = "call" /\ tr[i + 1].d = tr[i].d + 1
                /\ tr[i + 1].kind = "cons"
                /\ tr[i + 1].tree.l = Operands(tr, i)
                /\ (c # 0 /\ Len(tr) > c) =>
                      IF tr[c].ok
                      THEN /\ tr[c + 1].t = "eval" /\ tr[c + 1].d = tr[i].d + 1
                           /\ tr[c + 1].tree = tr[c].tree
                           /\ tr[c + 1].lex = tr[i].lex
                           /\ tr[c + 1].ev = tr[c].ev
                           /\ Kids(tr, i) = <<c + 1>>
                           /\ HasReturned(tr, i) =>
                                 /\ HasReturned(tr, c + 1)
                                 /\ RetOf(tr, i) = RetOf(tr, c + 1) + 1
                                 /\ Result(tr, i).ok = Result(tr, c + 1).ok
                                 /\ Result(tr, i).x = Result(tr, c + 1).x
                      ELSE /\ Kids(tr, i) = <<>>
                           /\ RetOf(tr, i) = c + 1
                           /\ ~tr[c + 1].ok /\ tr[c + 1].x = tr[c].x

\* A macro called under a let with a form that assigns the let's variable
\* has returned: its expansion was evaluated with the binding of the let
\* and gave 6.
C34_ExpansionEvaluated ==
    \E i \in DOMAIN log.trace :
        /\ log.trace[i].t = "eval" /\ IsMacroCall(log.trace[i].tree)
        /\ log.trace[i].tree.l[1].x = "inc"
        /\ log.trace[i].lex = <<<<"v", "4">>>>
        /\ HasReturned(log.trace, i)
        /\ Result(log.trace, i).ok /\ Result(log.trace, i).x = "6"
        /\ Result(log.trace, i).lex = <<<<"v", "5">>>>

\* The record of the result of the call of record j, after Rt::call has
\* added its frame to an error (0: the call has not returned).
CallRet(tr, j) == RetOf(tr, j)

\* The calls of native functions and closures in the trace that returned an
\* error.
FailedCalls(tr) ==
    {j \in DOMAIN tr : /\ tr[j].t = "call" /\ tr[j].kind \in {"subr", "cons"}
                       /\ CallRet(tr, j) # 0 /\ ~tr[CallRet(tr, j)].ok}

\* The frames of the calls that returned an error, in the order in which
\* the calls returned.
CrossedFrames(tr) ==
    LET rets == Sorted({CallRet(tr, j) : j \in FailedCalls(tr)})
    IN  [n \in DOMAIN rets |->
            tr[CHOOSE j \in FailedCalls(tr) : CallRet(tr, j) = rets[n]].frame]

\* C35: when the evaluation of a form without condition-case has ended with
\* an error, the error eval_form returned has the message it was created
\* with and one backtrace frame for each call of a native function or a
\* closure that returned it, from the innermost call to the outermost, and
\* no other; what the caller of eval gets shows as the message and then one
\* line for each of these frames.
C35_Backtrace ==
    LET tr == log.trace
        errs == {i \in DOMAIN tr : tr[i].t = "ret" /\ ~tr[i].ok}
        origin == CHOOSE i \in errs : \A k \in errs : i <= k
        final == tr[Len(tr)]
    IN  (/\ ctl.t = "idle" /\ last.op = "eval" /\ ~last.ok /\ ~last.panic
         /\ \A i \in DOMAIN tr : ~IsForm(tr, i, "condition-case")) =>
            /\ final.t = "ret" /\ final.d = 1 /\ ~final.ok
            /\ final.x = tr[origin].x
            /\ final.bt = CrossedFrames(tr)
            /\ last.out = "error: " \o tr[origin].x \o "\n" \o Lines(CrossedFrames(tr))

\* An evaluation has ended with an error that came out of car, called by a
\* closure that funcall called.
C35_ThreeCallsCrossed ==
    /\ ctl.t = "idle" /\ last.op = "eval" /\ ~last.ok /\ ~last.panic
    /\ Cardinality(FailedCalls(log.trace)) = 3
    /\ CrossedFrames(log.trace)[1] = "car [5]"
    /\ CrossedFrames(log.trace)[2] = "lambda [5]"
    /\ \E j \in FailedCalls(log.trace) : log.trace[j].x = "#<subr funcall>"

\* C37: when a condition-case returns, with a value or with an error, the
\* lexical stack holds the bindings it held when the condition-case was
\* entered, and no other.
C37_LexicalStackBalanced ==
    \A i \in DOMAIN log.trace :
        LET tr == log.trace
            names(lex) == [n \in DOMAIN lex |-> lex[n][1]]
        IN  (IsForm(tr, i, "condition-case") /\ HasReturned(tr, i)) =>
                names(Result(tr, i).lex) = names(tr[i].lex)

\* A condition-case whose handler has a cdr that is not a list has
\* returned nil, and the form after it has been evaluated with a lexical
\* stack that holds the variable of the condition-case.
C37_BindingLeft ==
    \E i \in DOMAIN log.trace :
        /\ IsForm(log.trace, i, "condition-case") /\ HasReturned(log.trace, i)
        /\ log.trace[i].lex = <<>>
        /\ IsNilResult(log.trace, i)
        /\ Len(log.trace) > RetOf(log.trace, i)
        /\ log.trace[RetOf(log.trace, i) + 1].t = "eval"
        /\ log.trace[RetOf(log.trace, i) + 1].x = "err"
        /\ Len(log.trace[RetOf(log.trace, i) + 1].lex) = 1
        /\ log.trace[RetOf(log.trace, i) + 1].lex[1][1] = "err"

\* C38: no evaluation ends in the panic of var_set, the set_cdr of the
\* binding cell found having failed; not that of a setq on a captured
\* variable in the body of a closure that defalias installed either.
C38_VarSetMutable ==
    ~(ctl.t = "ret" /\ ctl.r.panic /\ ctl.r.e = "variables should never be immutable")

\* A closure that defalias installed has been called by its name and the
\* setq of its body was entered with the captured x as its oldest binding.
C38_SetqInInstalledClosure ==
    \E j \in DOMAIN log.trace : \E i \in DOMAIN log.trace :
        /\ log.trace[j].t = "call" /\ log.trace[j].frame = "setx [5]"
        /\ i > j /\ IsForm(log.trace, i, "setq")
        /\ Len(log.trace[i].lex) = 2
        /\ log.trace[i].lex[1] = <<"x", "3">>
        /\ log.trace[i].lex[2] = <<"y", "5">>

(***************************************************************************)
(* Properties of the evaluator sessions (Spec).                            *)
(***************************************************************************)
\* C1: every let or let* that returns normally leaves each dynamic variable
\* it rebound with the value the variable had before the form was entered,
\* and the lexical binding stack with its length at entry.
C1_LetRestores ==
    \A i \in DOMAIN log.lets :
        LET e == log.lets[i]
        IN  e.ok => /\ Len(e.lex1) = Len(e.lex0)
                    /\ \A s \in e.reb : e.ev1[s] = e.ev0[s]

\* A let* returned after rebinding one special variable twice.
C1_TwiceRebound ==
    \E i \in DOMAIN log.lets :
        LET e == log.lets[i]
        IN  e.ok /\ ~e.parallel /\ \E s \in e.reb : e.ev1[s] # e.ev0[s]

\* The value saved first for symbol s in a vector of (symbol, value) pairs.
FirstSaved(dyn, s) ==
    LET hits == {j \in DOMAIN dyn : j % 2 = 1 /\ dyn[j][2] = s}
    IN  dyn[(CHOOSE j \in hits : \A k \in hits : j <= k) + 1]
TimesSaved(dyn, s) == Cardinality({j \in DOMAIN dyn : j % 2 = 1 /\ dyn[j][2] = s})

\* C21: the exit of a let or let* writes the saved values back in the
\* reverse of the order in which they were saved, so that a variable the
\* binding list rebound more than once ends with the value saved first, the
\* one it had before the form.
C21_RestoredInReverse ==
    \A i \in DOMAIN log.lets :
        LET e == log.lets[i]
        IN  e.ok => \A s \in e.reb :
                        TimesSaved(e.saved, s) > 1 => e.ev1[s] = FirstSaved(e.saved, s)

\* A let or let* that saved two values for one variable has returned.
C21_SavedTwice ==
    \E i \in DOMAIN log.lets :
        log.lets[i].ok /\ \E s \in log.lets[i].reb : TimesSaved(log.lets[i].saved, s) = 2

\* The handler event that caught the error which let event i propagated: the
\* first one whose condition-case was entered before and left after it.
Encloses(j, i) == log.handlers[j].from < i /\ i <= log.handlers[j].to
CaughtBy(i, j) ==
    /\ ~log.lets[i].ok
    /\ Encloses(j, i)
    /\ \A j2 \in 1..(j - 1) : ~Encloses(j2, i)
\* Let event i is the outermost let the error left on its way to handler j.
OutermostCaught(i, j) ==
    /\ CaughtBy(i, j)
    /\ \A i2 \in DOMAIN log.lets : CaughtBy(i2, j) => i2 <= i

\* C2: when an error leaves a let or let* and an enclosing condition-case
\* catches it, the lexical binding stack and the dynamic variables the let
\* had rebound are, when the handler body runs and after condition-case has
\* returned, as they were before the let was entered.
C2_LetUnwindsOnError ==
    \A j \in DOMAIN log.handlers : \A i \in DOMAIN log.lets :
        LET h == log.handlers[j]
            e == log.lets[i]
        IN  OutermostCaught(i, j) =>
                /\ h.lex = e.lex0
                /\ \A s \in e.reb : h.ev[s] = e.ev0[s]
                /\ h.returned => /\ h.lexEnd = e.lex0
                                 /\ \A s \in e.reb : h.evEnd[s] = e.ev0[s]

\* C3: a closure holds the binding cells of the lexical stack themselves, so
\* closures made in one scope share them: once the first closure of the
\* pair of program 5 has assigned x, the second one computes with the new
\* value.
C3_ClosuresShareCells ==
    /\ \A i \in DOMAIN log.closures : log.closures[i].cells = log.closures[i].lex
    /\ (last.op = "eval" /\ last.prog = 5) => last.out = "9"

\* Two closures were made over the same non-empty lexical stack and the
\* program that calls both has returned.
C3_TwoClosuresCalled ==
    /\ last.op = "eval" /\ last.prog = 5 /\ last.ok
    /\ Len(log.closures) = 2
    /\ log.closures[1].lex # <<>>
    /\ log.closures[1].lex = log.closures[2].lex

\* The cells a symbol's function slot reaches.
FuncCells(h, i) == Mark(h, ConsIds(<<h[i].d>>))
SymIds(h) == {i \in DOMAIN h : h[i].t = "sym"}

\* C4: the function installed in a symbol is a copy made at installation:
\* none of its cells belongs to the arena, so the assignment that the
\* closure of program 6 makes to the captured x afterwards does not change
\* what the installed function returns.
C4_InstalledCopy ==
    /\ \A i \in SymIds(heap) : \A c \in FuncCells(heap, i) : heap[c].blk = "global"
    /\ (last.op = "eval" /\ last.prog = 6) => last.out = "8"

\* Program 6 has returned and a symbol holds a closure.
C4_AliasCalled ==
    /\ last.op = "eval" /\ last.prog = 6 /\ last.ok
    /\ \E i \in SymIds(heap) : IsCons(heap[i].d)

\* C9: at every collection the values the evaluator goes on to use are
\* reachable from the root set, and an evaluation that collects at the head
\* of eval and at every entry of call_closure shows the same value or error
\* and the same variables as one that never collects.
C9_CollectionSafe ==
    /\ \A i \in DOMAIN log.gcs : log.gcs[i].safe
    /\ last.op = "eval" => (last.out = last.outNoGc /\ last.env = last.envNoGc)

\* An evaluation has returned in which call_closure collected and cells
\* were reclaimed.
C9_Reclaimed ==
    /\ last.op = "eval" /\ last.ok
    /\ Len(log.gcs) >= 2
    /\ \E i \in DOMAIN heap : heap[i].blk = "local" /\ ~heap[i].live

(***************************************************************************)
(* Symbol-table sessions (SpecSym): a host that interns and looks up       *)
(* names, builds lists in the arena, installs them as functions, mutates   *)
(* conses and collects, in any order.                                      *)
(***************************************************************************)
EvalVars == <<envVars, ctl, stack, log, shadow, reader>>
ThreadVars == <<lock, tpc, tname, tres>>
HostVars == <<locals, frames>>

SymNames == {"car", "foo", "bar"}
UserSyms(map) == {n \in DOMAIN map : n \notin DOMAIN InitSymMap}
LiveConses(h) == {i \in DOMAIN h : h[i].t = "cons" /\ h[i].live}
Rooted(rs) == UNION {{rs[i].data[j] : j \in DOMAIN rs[i].data} : i \in DOMAIN rs}

\* What the last operation saw and returned; `aged` are the names interned
\* before the latest collection.
SymOp(op, name, cell, res, ok) ==
    [op |-> op, name |-> name, cell |-> cell, res |-> res, ok |-> ok,
     map0 |-> symMap, heap0 |-> heap,
     aged |-> IF op = "gc" THEN UserSyms(symMap)
              ELSE IF last.op = "init" THEN {} ELSE last.aged]

\* SymbolMap::intern
SymIntern(name) ==
    /\ steps < MaxSymOps
    /\ LET r == SymbolMapIntern(heap, symMap, name)
       IN  /\ heap' = r.heap
           /\ symMap' = r.map
           /\ last' = SymOp("intern", name, 0, r.sym, TRUE)
    /\ steps' = steps + 1
    /\ UNCHANGED <<roots, EvalVars, ThreadVars, HostVars>>

\* SymbolMap::get
SymGet(name) ==
    /\ steps < MaxSymOps
    /\ last' = SymOp("get", name, 0, MapGet(symMap, name), TRUE)
    /\ steps' = steps + 1
    /\ UNCHANGED <<heap, symMap, roots, EvalVars, ThreadVars, HostVars>>

\* cons! followed by root!: a fresh cons of the arena, rooted.
SymCons(a, d) ==
    /\ steps < MaxSymOps
    /\ heap' = Append(heap, ConsCell(a, d, "local", TRUE))
    /\ roots' = RootInit(roots, Len(roots) + 1, <<ConsV(Len(heap) + 1)>>)
    /\ last' = SymOp("cons", "", Len(heap) + 1, ConsV(Len(heap) + 1), TRUE)
    /\ steps' = steps + 1
    /\ UNCHANGED <<symMap, EvalVars, ThreadVars, HostVars>>

\* SymbolMap::set_func
SymSetFunc(name, func) ==
    /\ steps < MaxSymOps
    /\ name \in DOMAIN symMap
    /\ heap' = SetFunc(heap, MapGet(symMap, name), func)
    /\ last' = SymOp("set_func", name, symMap[name], func, TRUE)
    /\ steps' = steps + 1
    /\ UNCHANGED <<symMap, roots, EvalVars, ThreadVars, HostVars>>

\* Cons::set_car on any live cons.
SymSetCar(c, v) ==
    /\ steps < MaxSymOps
    /\ LET r == SetCar(heap, ConsV(c), v)
       IN  /\ heap' = r.heap
           /\ last' = SymOp("set_car", "", c, v, r.ok)
    /\ steps' = steps + 1
    /\ UNCHANGED <<symMap, roots, EvalVars, ThreadVars, HostVars>>

\* Cons::set_cdr on any live cons.
SymSetCdr(c, v) ==
    /\ steps < MaxSymOps
    /\ LET r == SetCdr(heap, ConsV(c), v)
       IN  /\ heap' = r.heap
           /\ last' = SymOp("set_cdr", "", c, v, r.ok)
    /\ steps' = steps + 1
    /\ UNCHANGED <<symMap, roots, EvalVars, ThreadVars, HostVars>>

\* The newest Root goes out of scope.
SymUnroot ==
    /\ steps < MaxSymOps
    /\ Len(roots) > 0
    /\ roots' = RootDrop(roots)
    /\ last' = SymOp("unroot", "", 0, Nil, TRUE)
    /\ steps' = steps + 1
    /\ UNCHANGED <<heap, symMap, EvalVars, ThreadVars, HostVars>>

\* Arena::garbage_collect
SymCollect ==
    /\ steps < MaxSymOps
    /\ heap' = GarbageCollect(heap, roots, envVars)
    /\ last' = SymOp("gc", "", 0, Nil, TRUE)
    /\ steps' = steps + 1
    /\ UNCHANGED <<symMap, roots, EvalVars, ThreadVars, HostVars>>

NextSym ==
    \/ \E name \in SymNames : SymIntern(name)
    \/ \E name \in SymNames : SymGet(name)
    \/ \E a \in {IntV(1)} \cup Rooted(roots), d \in {Nil} \cup Rooted(roots) : SymCons(a, d)
    \/ \E name \in SymNames, func \in {Nil} \cup Rooted(roots) : SymSetFunc(name, func)
    \/ \E c \in LiveConses(heap) : SymSetCar(c, IntV(5))
    \/ \E c \in LiveConses(heap) : SymSetCdr(c, Nil)
    \/ SymUnroot
    \/ SymCollect

SpecSym == Init /\ [][NextSym]_vars

(***************************************************************************)
(* Properties of the symbol-table sessions (SpecSym).                      *)
(***************************************************************************)
\* The cells reachable from the function slot of some symbol.
Installed(h) == UNION {FuncCells(h, i) : i \in SymIds(h)}

\* C5: every cons reachable from a symbol's function slot is read-only:
\* set_car and set_cdr on it return an error and leave the heap as it was;
\* the conses of the arena, of which the function is a copy, still accept
\* both.
C5_InstalledReadOnly ==
    /\ \A c \in Installed(heap) : ~heap[c].mut
    /\ (last.op \in {"set_car", "set_cdr"} /\ last.cell \in Installed(last.heap0))
            => (~last.ok /\ heap = last.heap0)
    /\ (last.op \in {"set_car", "set_cdr"} /\ last.heap0[last.cell].blk = "local")
            => /\ last.ok
               /\ last.res = (IF last.op = "set_car" THEN heap[last.cell].a
                                                      ELSE heap[last.cell].d)

\* set_car was refused on a cons of an installed function while the list
\* the function was copied from is still rooted.
C5_Refused ==
    /\ last.op = "set_car" /\ ~last.ok
    /\ last.cell \in Installed(heap)
    /\ Len(roots) > 0

\* C6: intern of a name that has an entry returns that entry's symbol and
\* changes nothing; no operation replaces or removes an entry; no two
\* symbol cells carry the same name.
C6_InternIdempotent ==
    /\ last.op # "init" =>
            \A n \in DOMAIN last.map0 : n \in DOMAIN symMap /\ symMap[n] = last.map0[n]
    /\ (last.op = "intern" /\ last.name \in DOMAIN last.map0) =>
            /\ last.res = SymV(last.map0[last.name])
            /\ symMap = last.map0
            /\ heap = last.heap0
    /\ last.op = "intern" => MapGet(symMap, last.name) = last.res
    /\ \A i, j \in SymIds(heap) : heap[i].a = heap[j].a => i = j

\* A name interned by an earlier operation, whose symbol has been given a
\* function since, was interned again.
C6_InternedAgain ==
    /\ last.op = "intern"
    /\ last.name \in UserSyms(last.map0)
    /\ SymFunc(heap, last.res) # Nil

\* C7: a collection leaves the symbol table and the cell of every entry as
\* they were, so each entry always names a live symbol cell of its name and
\* intern returns it although no root refers to it.
C7_CollectKeepsSymbols ==
    /\ \A n \in DOMAIN symMap :
            /\ heap[symMap[n]].live
            /\ heap[symMap[n]].t = "sym"
            /\ heap[symMap[n]].a = StrV(n)
    /\ last.op = "gc" =>
            /\ symMap = last.map0
            /\ \A n \in DOMAIN symMap : heap[symMap[n]] = last.heap0[symMap[n]]
    /\ (last.op = "intern" /\ last.name \in last.aged) =>
            last.res = SymV(last.map0[last.name])

\* After a collection that ran with an empty root set, a name interned
\* before it was interned again.
C7_InternAfterCollect ==
    /\ last.op = "intern"
    /\ last.name \in last.aged
    /\ Len(roots) = 0

(***************************************************************************)
(* Concurrent interning (SpecIntern): threads call the global intern,      *)
(* which takes the mutex of the global symbol table, looks the name up     *)
(* and inserts a new symbol when there is none.                            *)
(***************************************************************************)
Threads == 1..NumThreads
ThreadNames == {"foo", "bar"}

\* A Mutex::lock that does not wait for the holder.
LockIgnored(l) == TRUE

\* Mutex::lock returns once no thread holds the mutex.
LockFree(l) == l = 0

\* intern: interned_symbols().lock()
TLock(t, name) ==
    /\ tpc[t] = "idle"
    /\ Len(tres[t]) < MaxInterns
    /\ LockFree(lock)
    /\ lock' = t
    /\ tpc' = [tpc EXCEPT ![t] = "get"]
    /\ tname' = [tname EXCEPT ![t] = name]
    /\ UNCHANGED <<heap, symMap, roots, last, steps, tres, EvalVars, HostVars>>

\* SymbolMapCore::intern: match self.get(name)
TGet(t) ==
    /\ tpc[t] = "get"
    /\ IF MapGet(symMap, tname[t]) # Nil
       THEN /\ tres' = [tres EXCEPT ![t] =
                            Append(@, [name |-> tname[t], sym |-> MapGet(symMap, tname[t])])]
            /\ tpc' = [tpc EXCEPT ![t] = "unlock"]
       ELSE /\ tpc' = [tpc EXCEPT ![t] = "new"]
            /\ UNCHANGED tres
    /\ UNCHANGED <<heap, symMap, roots, last, steps, lock, tname, EvalVars, HostVars>>

\* SymbolMapCore::intern, the None arm.
TNew(t) ==
    /\ tpc[t] = "new"
    /\ LET r == InternNew(heap, symMap, tname[t], "global")
       IN  /\ heap' = r.heap
           /\ symMap' = r.map
           /\ tres' = [tres EXCEPT ![t] = Append(@, [name |-> tname[t], sym |-> r.sym])]
    /\ tpc' = [tpc EXCEPT ![t] = "unlock"]
    /\ UNCHANGED <<roots, last, steps, lock, tname, EvalVars, HostVars>>

\* The MutexGuard is dropped at the end of the statement.
TUnlock(t) ==
    /\ tpc[t] = "unlock"
    /\ lock' = IF lock = t THEN 0 ELSE lock
    /\ tpc' = [tpc EXCEPT ![t] = "idle"]
    /\ UNCHANGED <<heap, symMap, roots, last, steps, tname, tres, EvalVars, HostVars>>

NextIntern ==
    \/ \E t \in Threads, name \in ThreadNames : TLock(t, name)
    \/ \E t \in Threads : TGet(t)
    \/ \E t \in Threads : TNew(t)
    \/ \E t \in Threads : TUnlock(t)

SpecIntern == Init /\ [][NextIntern]_vars

\* What the calls of intern have returned so far.
Returned == UNION {{tres[t][i] : i \in DOMAIN tres[t]} : t \in Threads}

\* C8: the global intern is atomic: calls for one name return the same
\* symbol, whichever threads make them, and one symbol cell is created for
\* the name.
C8_InternAtomic ==
    /\ \A x, y \in Returned : x.name = y.name => x.sym = y.sym
    /\ \A x \in Returned : MapGet(symMap, x.name) = x.sym
    /\ \A i, j \in SymIds(heap) : heap[i].a = heap[j].a => i = j

\* Two threads have interned the same new name.
C8_BothInterned ==
    \E t1, t2 \in Threads :
        /\ t1 # t2
        /\ \E i \in DOMAIN tres[t1], j \in DOMAIN tres[t2] :
                tres[t1][i].name = tres[t2][j].name

(***************************************************************************)
(* Root scopes (SpecRoot): host functions are called, declare Roots with   *)
(* root! and return, normally or early with an error; the Roots of a       *)
(* function are dropped, newest first, when it returns.                    *)
(***************************************************************************)
\* n Roots are dropped: the root set left and the addresses popped.
RECURSIVE DropLog(_, _)
DropLog(rs, n) ==
    IF n <= 0 THEN [roots |-> rs, popped |-> <<>>]
    ELSE LET r == RootDrop(rs)
             rest == DropLog(r, n - 1)
         IN  [roots |-> rest.roots,
              popped |-> <<IF Len(r) < Len(rs) THEN rs[Len(rs)].ptr ELSE 0>> \o rest.popped]

Reverse(s) == [i \in 1..Len(s) |-> s[Len(s) + 1 - i]]

\* A host function is called.
RootCall ==
    /\ Len(frames) < MaxDepth
    /\ frames' = Append(frames, Len(locals))
    /\ last' = [op |-> "call"]
    /\ UNCHANGED <<heap, symMap, roots, steps, locals, EvalVars, ThreadVars>>

\* root!: Root::new, then Root::init with the address of the datum.
RootDeclare ==
    /\ Len(frames) > 0
    /\ steps < MaxRoots
    /\ locals' = Append(locals, steps + 1)
    /\ roots' = RootInit(roots, steps + 1, <<>>)
    /\ steps' = steps + 1
    /\ last' = [op |-> "root"]
    /\ UNCHANGED <<heap, symMap, frames, EvalVars, ThreadVars>>

\* The innermost function returns (err: early, by the ? operator): its
\* Roots are dropped in the reverse of their declaration order.
RootReturn(err) ==
    /\ Len(frames) > 0
    /\ LET base == frames[Len(frames)]
           d == DropLog(roots, Len(locals) - base)
       IN  /\ roots' = d.roots
           /\ locals' = SubSeq(locals, 1, base)
           /\ last' = [op |-> IF err THEN "error" ELSE "return",
                        popped |-> d.popped,
                        dropped |-> Reverse(SubSeq(locals, base + 1, Len(locals)))]
    /\ frames' = SubSeq(frames, 1, Len(frames) - 1)
    /\ UNCHANGED <<heap, symMap, steps, EvalVars, ThreadVars>>

NextRoot ==
    \/ RootCall
    \/ RootDeclare
    \/ \E err \in BOOLEAN : RootReturn(err)

SpecRoot == Init /\ [][NextRoot]_vars

\* C10: the root set is a stack that mirrors the initialized Roots alive:
\* init pushed one entry for each, a return, normal or early, popped one
\* entry for each Root it dropped, and each pop removed the entry of the
\* Root being dropped.
C10_RootsBalanced ==
    /\ Len(roots) = Len(locals)
    /\ \A i \in DOMAIN roots : roots[i].ptr = locals[i]
    /\ last.op \in {"return", "error"} => last.popped = last.dropped
    /\ Len(frames) = 0 => Len(roots) = 0

\* A function that declared two Roots under a caller's Root has returned
\* early.
C10_EarlyExit ==
    /\ last.op = "error"
    /\ Len(last.dropped) >= 2
    /\ Len(roots) >= 1

(***************************************************************************)
(* Calls of single functions (SpecFn): each action builds its inputs in a  *)
(* fresh arena, calls the function once and records what it returned.      *)
(***************************************************************************)
\* The reader run over a whole text.
RECURSIVE ReadAll(_, _, _, _)
ReadAll(h, map, st, toks) ==
    LET r == ReadToken(h, map, st, Head(toks))
    IN  IF r.done \/ Len(toks) = 1 THEN r ELSE ReadAll(r.heap, r.map, r.st, Tail(toks))

Formals == <<"a", "b", "c", "d", "e", "g">>
MaxFormals == 2
MaxActuals == 4
RestKinds == {"none", "symbol", "bare"}
Toks(names) == [i \in DOMAIN names |-> S(names[i])]
Ints(lo, hi) == [i \in 1..(hi - lo + 1) |-> IntV(lo + i - 1)]

\* The text of the formal list with nreq required and nopt optional names.
ArgListText(nreq, nopt, rest) ==
    <<LP>> \o Toks(SubSeq(Formals, 1, nreq))
    \o (IF nopt > 0 THEN <<S("&optional")>> ELSE <<>>)
    \o Toks(SubSeq(Formals, nreq + 1, nreq + nopt))
    \o (CASE rest = "none" -> <<>>
          [] rest = "symbol" -> <<S("&rest"), S("r")>>
          [] rest = "bare" -> <<S("&rest")>>)
    \o <<RP>>

MaxInits == 3

\* The symbols pre_init has inserted so far, by name.
Inits == IF last.op = "init" THEN [n \in {} |-> Nil] ELSE last.inits

\* bind_args is called with a formal list and the actuals 1..n.
FnBindArgs(nreq, nopt, rest, n) ==
    /\ LET rd == ReadAll(InitHeap, InitSymMap, <<>>, ArgListText(nreq, nopt, rest))
           m == Machine(rd.heap, rd.map, NoEnv, <<>>, Idle, <<>>, NoLog, TRUE)
           b == BindArgs(m, rd.v, Ints(1, n), <<>>, "f")
       IN  last' = [op |-> "bind_args", nreq |-> nreq, nopt |-> nopt, rest |-> rest,
                    n |-> n, ok |-> b.r.ok, e |-> b.r.e,
                    bound |-> ShowCells(b.m.heap, b.vars)]
    /\ UNCHANGED <<heap, symMap, roots, steps, EvalVars, ThreadVars, HostVars>>

\* What an operation on the symbol map saw and returned.
MapOp(op, name, res, ok, inits) ==
    [op |-> op, name |-> name, res |-> res, ok |-> ok, map0 |-> symMap, inits |-> inits]

\* pre_init is called with a symbol of the name, made for the call.  A
\* failed assert! ends the process.
FnPreInit(name) ==
    /\ steps < MaxInits
    /\ LET h == Append(heap, SymCell(name, Nil, "global"))
           sym == SymV(Len(h))
           r == PreInit(h, symMap, sym)
       IN  /\ heap' = h
           /\ symMap' = r.map
           /\ last' = MapOp("pre_init", name, sym, r.ok,
                            IF r.ok THEN [n \in DOMAIN Inits \cup {name} |->
                                            IF n = name THEN sym ELSE Inits[n]]
                            ELSE Inits)
           /\ steps' = IF r.ok THEN steps + 1 ELSE MaxInits
    /\ UNCHANGED <<roots, EvalVars, ThreadVars, HostVars>>

\* SymbolMap::intern
FnIntern(name) ==
    /\ steps < MaxInits
    /\ LET r == SymbolMapIntern(heap, symMap, name)
       IN  /\ heap' = r.heap
           /\ symMap' = r.map
           /\ last' = MapOp("intern", name, r.sym, TRUE, Inits)
    /\ steps' = steps + 1
    /\ UNCHANGED <<roots, EvalVars, ThreadVars, HostVars>>

\* SymbolMap::get
FnGet(name) ==
    /\ steps < MaxInits
    /\ last' = MapOp("get", name, MapGet(symMap, name), TRUE, Inits)
    /\ steps' = steps + 1
    /\ UNCHANGED <<heap, symMap, roots, EvalVars, ThreadVars, HostVars>>

NextFn ==
    \/ \E nreq, nopt \in 0..MaxFormals, rest \in RestKinds, n \in 0..MaxActuals :
            FnBindArgs(nreq, nopt, rest, n)

SpecFn == Init /\ [][NextFn]_vars

\* The symbol map with pre_init, intern and get called in any order.
NextMap ==
    \/ \E name \in SymNames : FnPreInit(name)
    \/ \E name \in SymNames : FnIntern(name)
    \/ \E name \in SymNames : FnGet(name)

SpecMap == Init /\ [][NextMap]_vars

\* The text of the list of the integers lo..hi.
RECURSIVE IntsText(_, _)
IntsText(lo, hi) ==
    IF lo > hi THEN "" ELSE ToString(lo) \o (IF lo < hi THEN " " ELSE "") \o IntsText(lo + 1, hi)
ListText(lo, hi) == IF lo > hi THEN "nil" ELSE "(" \o IntsText(lo, hi) \o ")"

C20_PreInitOnce ==
    /\ last.op = "pre_init" =>
            IF last.name \in DOMAIN last.map0
            THEN ~last.ok /\ symMap = last.map0
            ELSE /\ last.ok
                 /\ DOMAIN symMap = DOMAIN last.map0 \cup {last.name}
                 /\ symMap[last.name] = last.res[2]
                 /\ \A n \in DOMAIN last.map0 : symMap[n] = last.map0[n]
    /\ last.op \in {"intern", "get"} /\ last.name \in DOMAIN last.inits =>
            last.res = last.inits[last.name]

\* pre_init has failed for a name that an earlier pre_init inserted.
C20_SecondPreInit ==
    /\ last.op = "pre_init" /\ ~last.ok
    /\ last.name \in DOMAIN last.inits

(***************************************************************************)
(* parse_arg_list on its own (SpecArgs): it is called with every formal    *)
(* list of up to MaxArgToks of the symbols a, b, &optional and &rest.      *)
(***************************************************************************)
ArgNames == {"a", "b", "&optional", "&rest"}
MaxArgToks == 4
ArgLists == UNION {[1..n -> ArgNames] : n \in 0..MaxArgToks}

\* parse_arg_list is called, once, with the list of the symbols `names`.
FnParseArgList(names) ==
    /\ last.op = "init"
    /\ LET rd == ReadAll(InitHeap, InitSymMap, <<>>, <<LP>> \o Toks(names) \o <<RP>>)
           r == ParseArgList(rd.heap, rd.v, "required")
           shown(s) == [i \in DOMAIN s |-> ShowVal(rd.heap, s[i], 0)]
       IN  last' = [op |-> "parse_arg_list", names |-> names, e |-> r.e,
                    required |-> shown(r.required), optional |-> shown(r.optional),
                    rest |-> shown(r.rest)]
    /\ UNCHANGED <<heap, symMap, roots, steps, EvalVars, ThreadVars, HostVars>>

NextArgs == \E names \in ArgLists : FnParseArgList(names)

SpecArgs == Init /\ [][NextArgs]_vars

\* The first place of `name` in a sequence of names (0: nowhere).
Place(names, name) ==
    LET s == {i \in DOMAIN names : names[i] = name}
    IN  IF s = {} THEN 0 ELSE CHOOSE i \in s : \A j \in s : i <= j

\* C25: parse_arg_list accepts a formal list with &rest only when exactly
\* one symbol follows the &rest, and rejects with an error one where two or
\* more symbols follow or none; of the symbols before &rest those before
\* &optional are required and the others optional.
C25_ParseArgList ==
    last.op = "parse_arg_list" =>
        LET names == last.names
            r == Place(names, "&rest")
            before == IF r = 0 THEN names ELSE SubSeq(names, 1, r - 1)
            o == Place(before, "&optional")
            plain(s) == SelectSeq(s, LAMBDA n : n # "&optional")
        IN  IF r > 0 /\ Len(names) - r # 1
            THEN last.e # ""
            ELSE /\ last.e = ""
                 /\ last.rest = (IF r = 0 THEN <<>> ELSE <<names[r + 1]>>)
                 /\ last.required = (IF o = 0 THEN before ELSE SubSeq(before, 1, o - 1))
                 /\ last.optional =
                        (IF o = 0 THEN <<>> ELSE plain(SubSeq(before, o, Len(before))))

\* parse_arg_list was called with a list that ends with &rest after a
\* required and an optional symbol.
C25_BareRest ==
    /\ last.op = "parse_arg_list"
    /\ last.names = <<"a", "&optional", "b", "&rest">>

(***************************************************************************)
(* The function slot of one symbol (SpecSlot): the symbol_func test with   *)
(* SymbolMap::set_func, on an uninterned symbol foo and functions that are *)
(* conses made by Cons::new1.                                              *)
(***************************************************************************)
MaxSlotOps == 5

\* What clone_in leaves in uninterned_symbol_map of the block: the
\* uninterned symbols (those not of the global block) the function holds.
CloneCache(h, func) ==
    LET cells == Mark(h, ConsIds(<<func>>))
        vals == {func} \cup {h[c].a : c \in cells} \cup {h[c].d : c \in cells}
    IN  {v[2] : v \in {x \in vals : IsSym(x) /\ h[x[2]].blk # "global"}}

\* A cache that set_func leaves as clone_in filled it.
KeepCache(cache) == cache
\* uninterned_symbol_map.clear()
ClearCache(cache) == {}

\* What the last operation on the slot saw and returned: the symbol, the
\* heap before it, the cache of the block after it, and the function last
\* read from the slot with the contents it had when read.
SlotOp(op, sym, res, cache, before, beforeTree) ==
    [op |-> op, sym |-> sym, res |-> res, heap0 |-> heap, cache |-> cache,
     before |-> before, beforeTree |-> beforeTree]

\* Symbol::new_uninterned("foo", cx)
SlotNew ==
    /\ last.op = "init"
    /\ heap' = Append(heap, SymCell("foo", Nil, "local"))
    /\ last' = SlotOp("new_uninterned", Len(heap) + 1, SymV(Len(heap) + 1), {},
                      Nil, Tree(heap, Nil, TreeDepth))
    /\ UNCHANGED <<symMap, roots, steps, EvalVars, ThreadVars, HostVars>>

\* Cons::new1(a, cx)
SlotCons ==
    /\ last.op \notin {"init", "parse_arg_list"} /\ steps < MaxSlotOps
    /\ \E a \in {IntV(1), IntV(2), SymV(last.sym)} :
          /\ heap' = Append(heap, ConsCell(a, Nil, "local", TRUE))
          /\ last' = SlotOp("cons", last.sym, ConsV(Len(heap) + 1), last.cache,
                            last.before, last.beforeTree)
    /\ steps' = steps + 1
    /\ UNCHANGED <<symMap, roots, EvalVars, ThreadVars, HostVars>>

\* SymbolMap::set_func(sym, func) with nil or one of the conses made.
SlotSetFunc ==
    /\ last.op \notin {"init", "parse_arg_list"} /\ steps < MaxSlotOps
    /\ \E func \in {Nil} \cup {ConsV(c) : c \in {i \in LiveConses(heap) : heap[i].blk = "local"}} :
          /\ heap' = SetFunc(heap, SymV(last.sym), func)
          /\ last' = SlotOp("set_func", last.sym, func,
                            ClearCache(last.cache \cup CloneCache(heap, func)),
                            last.before, last.beforeTree)
    /\ steps' = steps + 1
    /\ UNCHANGED <<symMap, roots, EvalVars, ThreadVars, HostVars>>

\* sym.func(cx): the function is read from the slot.
SlotFunc ==
    /\ last.op \notin {"init", "parse_arg_list"} /\ steps < MaxSlotOps
    /\ last' = SlotOp("func", last.sym, SymFunc(heap, SymV(last.sym)), last.cache,
                      SymFunc(heap, SymV(last.sym)),
                      Tree(heap, SymFunc(heap, SymV(last.sym)), TreeDepth))
    /\ steps' = steps + 1
    /\ UNCHANGED <<heap, symMap, roots, EvalVars, ThreadVars, HostVars>>

NextSlot == SlotNew \/ SlotCons \/ SlotSetFunc \/ SlotFunc

SpecSlot == Init /\ [][NextSlot]_vars

\* C36: after set_func the slot of the symbol holds a function with the
\* contents of the one given, whatever it held before, and nothing when nil
\* was given; the function read from the slot earlier has the contents it
\* had when it was read; and the uninterned-symbol cache of the block is
\* empty.
C36_FunctionSlot ==
    last.op = "set_func" =>
        LET new == SymFunc(heap, SymV(last.sym))
        IN  /\ Tree(heap, new, TreeDepth) = Tree(last.heap0, last.res, TreeDepth)
            /\ last.res = Nil => new = Nil
            /\ Tree(heap, last.before, TreeDepth) = last.beforeTree
            /\ last.cache = {}

\* A second set_func has replaced the function (1), read from the slot
\* before, by a function that holds the uninterned symbol.
C36_Replaced ==
    /\ last.op = "set_func"
    /\ IsCons(last.before) /\ last.before = SymFunc(last.heap0, SymV(last.sym))
    /\ Car(heap, last.before) = IntV(1)
    /\ IsCons(last.res) /\ Car(last.heap0, last.res) = SymV(last.sym)
    /\ CloneCache(last.heap0, last.res) = {last.sym}

====
